---- MODULE Spec2Model ----
(***************************************************************************)
(* Particle storage of OpenSPH (src/lib/storage/Storage.h, Quantity.h).    *)
(*                                                                         *)
(* A Storage is an Array<Quantity>; a Quantity is a key (idx) plus a       *)
(* Holder<TValue, TemporalEnum> with one buffer (CONST), two buffers       *)
(* (FIRST_ORDER: v, dv) or three buffers (SECOND_ORDER: v, dv, d2v).       *)
(* The model keeps two storages, `storage` (the receiver of merge, swap,   *)
(* clone, init and the getters) and `other` (the argument of merge and     *)
(* swap, and the storage a clone is returned into).                        *)
(***************************************************************************)
EXTENDS Integers, Sequences, FiniteSets, TLC

VARIABLES storage, other, last, steps

\* the thread pool (src/lib/thread/Pool.h) and one parallelFor running on it
VARIABLES pfor, tasks, tasksLeft, current, executed, contribution, threadLocal, output

poolVars == <<pfor, tasks, tasksLeft, current, executed, contribution, threadLocal, output>>

\* the run started by the Controller (src/gui/Controller.cpp) and its status
VARIABLES status, run

runVars == <<status, run>>

\* the bodies added by InitialConditions (src/lib/sph/initial/Initial.cpp) and the
\* storage integrated by a solver (src/gui/collision/Collision.cpp)
VARIABLES particles, sim

bodyVars == <<particles, sim>>

\* the neighbour finder (src/lib/objects/finders) and the pairs evaluated by one
\* sweep of the solver (src/lib/solvers/ContinuitySolver.cpp)
VARIABLES values, rankH, neighs, query, sweep

finderVars == <<values, rankH, neighs, query, sweep>>

\* BarnesHut: the source data r, m and the opening angle; its k-d tree; the
\* terms summed by the last evaluation
VARIABLES barnesHut, kdTree, evaluated

gravityVars == <<barnesHut, kdTree, evaluated>>

\* clampWithDerivative: its arguments and its result
VARIABLES clampArgs, clamped

clampVars == <<clampArgs, clamped>>

\* HardSphereSolver: the particles of the N-body run; the step count and the
\* bookkeeping of the last step
VARIABLES cloud, nbody

nbodyVars == <<cloud, nbody>>

\* the impact driver: its command line, its environment, the position of
\* main and the exception in flight
VARIABLES driver

driverVars == <<driver>>

\* Controller with its two threads: the status, the position of the main
\* thread, the queue of functors posted to it and the owner of
\* vis.mainThreadMutex; the position of the run thread sph.thread
VARIABLES controller, sphThread

controllerVars == <<controller, sphThread>>

\* a rubble-pile body being generated (src/lib/sph/initial/Initial.cpp)
VARIABLES rubble

rubbleVars == <<rubble>>

\* particles kept in a domain by DomainProjecting (src/lib/sph/boundary/Boundary.h)
VARIABLES projecting

boundaryVars == <<projecting>>

vars == <<storage, other, last, steps, poolVars, runVars, bodyVars, finderVars, gravityVars, clampVars, nbodyVars, driverVars, controllerVars, rubbleVars, boundaryVars>>

(***************************************************************************)
(* Bounds of the model.                                                    *)
(***************************************************************************)
\* largest number of calls made on the two storages
MaxSteps == 4
\* largest number of particles a storage is resized to
MaxN == 2
\* values a buffer element can take; 0 is TValue(0._f)
Values == {0, 1}

(***************************************************************************)
(* Quantity.h: enums.                                                      *)
(***************************************************************************)
\* TemporalEnum, the three orders a Holder is specialised for
CONST_ORDER == 0
FIRST_ORDER == 1
SECOND_ORDER == 2
\* TemporalEnum as a flag of Flags<TemporalEnum>
TemporalEnum == {"CONST", "FIRST_ORDER", "SECOND_ORDER", "ALL", "HIGHEST_ORDER"}
ValueEnum == {"SCALAR", "VECTOR"}

\* Flags<TemporalEnum> values passed to clone and swap
Selectors ==
    { {"CONST"}, {"FIRST_ORDER"}, {"SECOND_ORDER"}, {"ALL"}, {"HIGHEST_ORDER"},
      {"CONST", "HIGHEST_ORDER"} }

hasAny(flags, set) == flags \cap set # {}

(***************************************************************************)
(* Keys of the quantities and the compile-time map QuantityMap<TKey>       *)
(* giving the value type and the temporal enum of each key.                *)
(***************************************************************************)
Keys == {"RHO", "R", "M"}

QuantityType(key) == IF key = "R" THEN "VECTOR" ELSE "SCALAR"

QuantityMapOrder(key) ==
    CASE key = "R" -> SECOND_ORDER
      [] key = "RHO" -> FIRST_ORDER
      [] OTHER -> CONST_ORDER

\* template arguments of insert<TKeys...>(): one key, or two
KeyLists == {<<k>> : k \in Keys} \cup {<<"M", "R">>, <<"RHO", "M">>}

\* arguments of the "manual" insert<TValue, TEnum>(key) that differ from the map
ManualInserts ==
    { [key |-> "RHO", type |-> "SCALAR", order |-> SECOND_ORDER],
      [key |-> "RHO", type |-> "VECTOR", order |-> FIRST_ORDER],
      [key |-> "RHO", type |-> "SCALAR", order |-> CONST_ORDER] }

(***************************************************************************)
(* Quantity: idx and the holder (type, order, buffers v, dv, d2v).         *)
(***************************************************************************)
\* Holder<TValue, Type>() = default: every buffer is an empty Array
emplace(key, type, order) ==
    [idx |-> key, type |-> type, order |-> order, bufs |-> [l \in 1..(order + 1) |-> <<>>]]

\* dynamic_cast<Holder<TValue, Type>*>(data.get()): Holder<SECOND_ORDER> derives
\* from Holder<FIRST_ORDER>, which derives from Holder<CONST>
cast(q, type, order) == q.type = type /\ q.order >= order

conditionalClone(array, condition) == IF condition THEN array ELSE <<>>

\* Holder::clone whose SECOND_ORDER override tests HIGHEST_ORDER on dv, as the
\* FIRST_ORDER override does
Holder_clone_highest_dv(q, flags) ==
    CASE q.order = CONST_ORDER ->
            <<conditionalClone(q.bufs[1], hasAny(flags, {"CONST", "ALL"}))>>
      [] q.order = FIRST_ORDER ->
            <<conditionalClone(q.bufs[1], hasAny(flags, {"CONST", "ALL"})),
              conditionalClone(q.bufs[2], hasAny(flags, {"FIRST_ORDER", "HIGHEST_ORDER", "ALL"}))>>
      [] OTHER ->
            <<conditionalClone(q.bufs[1], hasAny(flags, {"CONST", "ALL"})),
              conditionalClone(q.bufs[2], hasAny(flags, {"FIRST_ORDER", "HIGHEST_ORDER", "ALL"})),
              conditionalClone(q.bufs[3], hasAny(flags, {"SECOND_ORDER", "ALL"}))>>

\* Holder<TValue, Type>::clone, one override per order
Holder_clone(q, flags) ==
    CASE q.order = CONST_ORDER ->
            <<conditionalClone(q.bufs[1], hasAny(flags, {"CONST", "ALL"}))>>
      [] q.order = FIRST_ORDER ->
            <<conditionalClone(q.bufs[1], hasAny(flags, {"CONST", "ALL"})),
              conditionalClone(q.bufs[2], hasAny(flags, {"FIRST_ORDER", "HIGHEST_ORDER", "ALL"}))>>
      [] OTHER ->
            <<conditionalClone(q.bufs[1], hasAny(flags, {"CONST", "ALL"})),
              conditionalClone(q.bufs[2], hasAny(flags, {"FIRST_ORDER", "ALL"})),
              conditionalClone(q.bufs[3], hasAny(flags, {"SECOND_ORDER", "HIGHEST_ORDER", "ALL"}))>>

\* Quantity::clone that leaves cloned.idx at its default -1
Quantity_clone_no_idx(q, flags) ==
    [idx |-> "NONE", type |-> q.type, order |-> q.order, bufs |-> Holder_clone(q, flags)]

\* Quantity::clone
Quantity_clone(q, flags) ==
    [idx |-> q.idx, type |-> q.type, order |-> q.order, bufs |-> Holder_clone(q, flags)]

\* Storage::size: the number of quantities
size(qs) == Len(qs)

\* Storage::clone
clone(qs, flags) == [i \in 1..Len(qs) |-> Quantity_clone(qs[i], flags)]

conditionalSwap(ar1, ar2, condition) == IF condition THEN <<ar2, ar1>> ELSE <<ar1, ar2>>

\* Holder<TValue, Type>::swap, one override per order of the receiver q; the holder
\* of o has at least the buffers of q (the ASSERT on the dynamic_cast has passed).
\* Gives the pairs <<buffer of q, buffer of o>> after the swap.
Holder_swap(q, o, flags) ==
    CASE q.order = CONST_ORDER ->
            <<conditionalSwap(q.bufs[1], o.bufs[1], hasAny(flags, {"CONST", "ALL"}))>>
      [] q.order = FIRST_ORDER ->
            <<conditionalSwap(q.bufs[1], o.bufs[1], hasAny(flags, {"CONST", "ALL"})),
              conditionalSwap(q.bufs[2], o.bufs[2],
                              hasAny(flags, {"FIRST_ORDER", "HIGHEST_ORDER", "ALL"}))>>
      [] OTHER ->
            <<conditionalSwap(q.bufs[1], o.bufs[1], hasAny(flags, {"CONST", "ALL"})),
              conditionalSwap(q.bufs[2], o.bufs[2], hasAny(flags, {"FIRST_ORDER", "ALL"})),
              conditionalSwap(q.bufs[3], o.bufs[3],
                              hasAny(flags, {"SECOND_ORDER", "HIGHEST_ORDER", "ALL"}))>>

\* Quantity::swap: the holders swap the selected buffers, then the keys are swapped.
\* Gives <<q after, o after>>.
Quantity_swap(q, o, flags) ==
    LET sw == Holder_swap(q, o, flags)
    IN  << [idx |-> o.idx, type |-> q.type, order |-> q.order,
            bufs |-> [l \in 1..(q.order + 1) |-> sw[l][1]]],
           [idx |-> q.idx, type |-> o.type, order |-> o.order,
            bufs |-> [l \in 1..(o.order + 1) |->
                        IF l <= q.order + 1 THEN sw[l][2] ELSE o.bufs[l]]] >>

\* the ASSERT at the head of Holder::swap, for the pair at position i
swapChecked(qs, os, i) == cast(os[i], qs[i].type, qs[i].order)

\* Storage::swap: the loop stops at the first pair whose ASSERT fails; the pairs
\* before it have been swapped. Gives <<storage, other, outcome>>.
swap(qs, os, flags) ==
    IF size(qs) # size(os)
    THEN <<qs, os, "panic">>
    ELSE LET failing == {i \in 1..Len(qs) : ~swapChecked(qs, os, i)}
             stop == IF failing = {}
                     THEN Len(qs) + 1
                     ELSE CHOOSE i \in failing : \A j \in failing : i <= j
         IN  << [i \in 1..Len(qs) |->
                    IF i < stop THEN Quantity_swap(qs[i], os[i], flags)[1] ELSE qs[i]],
                [i \in 1..Len(os) |->
                    IF i < stop THEN Quantity_swap(qs[i], os[i], flags)[2] ELSE os[i]],
                IF failing = {} THEN "ok" ELSE "panic" >>

\* StorageIterator<ALL>::iteratePair: the functor gets the buffers of the two
\* storages pairwise, which needs holders of the same type and order at each place
iteratePairMatches(qs, os) ==
    \A i \in 1..Len(qs) : qs[i].type = os[i].type /\ qs[i].order = os[i].order

\* Array::pushAll
pushAll(ar1, ar2) == ar1 \o ar2

\* Storage::merge. Gives <<storage, outcome>>; other is only read.
merge(qs, os) ==
    IF size(qs) # size(os) \/ ~iteratePairMatches(qs, os)
    THEN <<qs, "panic">>
    ELSE << [i \in 1..Len(qs) |->
                [qs[i] EXCEPT !.bufs = [l \in 1..(qs[i].order + 1) |->
                                           pushAll(qs[i].bufs[l], os[i].bufs[l])]]],
            "ok" >>

\* Array::fill(TValue(0._f))
fillZero(array) == [j \in 1..Len(array) |-> 0]

\* StorageIterator<Type>::iterate for Type FIRST_ORDER or SECOND_ORDER: the functor
\* gets the buffers of the quantities whose temporal enum is exactly Type
iterateVisits(q, order) == q.order = order

\* Storage::init whose second functor fills dv, not d2v
init_second_fills_dv(qs) ==
    [i \in 1..Len(qs) |->
        CASE iterateVisits(qs[i], FIRST_ORDER) ->
                [qs[i] EXCEPT !.bufs[2] = fillZero(qs[i].bufs[2])]
          [] iterateVisits(qs[i], SECOND_ORDER) ->
                [qs[i] EXCEPT !.bufs[2] = fillZero(qs[i].bufs[2])]
          [] OTHER -> qs[i]]

\* Storage::init: the functor of iterate<FIRST_ORDER> fills dv with zeros, the
\* functor of iterate<SECOND_ORDER> fills d2v with zeros
init(qs) ==
    [i \in 1..Len(qs) |->
        CASE iterateVisits(qs[i], FIRST_ORDER) ->
                [qs[i] EXCEPT !.bufs[2] = fillZero(qs[i].bufs[2])]
          [] iterateVisits(qs[i], SECOND_ORDER) ->
                [qs[i] EXCEPT !.bufs[3] = fillZero(qs[i].bufs[3])]
          [] OTHER -> qs[i]]

\* Array::resize(N): a longer array keeps its elements, the new ones are not
\* initialised ("this will leave some garbage data in the arrays")
resize(array, N, garbage) ==
    [j \in 1..N |-> IF j <= Len(array) THEN array[j] ELSE garbage]

\* iterate<ALL>(storage, [N](auto&& array) { array.resize(N); })
resizeAll(qs, N, garbage) ==
    [i \in 1..Len(qs) |->
        [qs[i] EXCEPT !.bufs = [l \in 1..(qs[i].order + 1) |->
                                   resize(qs[i].bufs[l], N, garbage)]]]

\* getSingle that checks the value type of the holder only, as a static_cast
\* after a comparison of getValueType() would
getSingle_type_only(qs, key, level) ==
    LET found == {i \in 1..Len(qs) : qs[i].idx = key}
    IN  IF found = {}
        THEN <<"throw", <<>>>>
        ELSE LET i == CHOOSE i \in found : \A j \in found : i <= j
             IN  IF qs[i].type = QuantityType(key)
                 THEN <<"ok", <<i, level>>>>
                 ELSE <<"panic", <<>>>>

\* Storage::getSingle<TKey>: linear search for the key, then the cast to the type
\* and temporal enum of QuantityMap<TKey>. Gives <<outcome, view>>, the view being
\* <<position of the quantity, buffer of its holder>>; level 1 is getValue, 2 is
\* getDerivative, 3 is get2ndDerivative.
getSingle(qs, key, level) ==
    LET found == {i \in 1..Len(qs) : qs[i].idx = key}
    IN  IF found = {}
        THEN <<"throw", <<>>>>
        ELSE LET i == CHOOSE i \in found : \A j \in found : i <= j
             IN  IF cast(qs[i], QuantityType(key), QuantityMapOrder(key))
                 THEN <<"ok", <<i, level>>>>
                 ELSE <<"panic", <<>>>>

(***************************************************************************)
(* The record of the last call: what was called, with which arguments,     *)
(* and how it ended ("ok", "panic" for a failed ASSERT, "throw" for the    *)
(* std::exception of getSingle).                                           *)
(***************************************************************************)
NoCall == [op |-> "none", outcome |-> "ok", flags |-> {}, key |-> "", level |-> 0, view |-> <<>>]

Call(op, outcome) == [NoCall EXCEPT !.op = op, !.outcome = outcome]

\* no call has been made on the storages
StorageIdle ==
    /\ storage = <<>>
    /\ other = <<>>
    /\ last = NoCall
    /\ steps = 0

\* no body has been added
BodyIdle ==
    /\ particles = <<>>
    /\ sim = [phase |-> "none"]

\* no finder has been built
FinderIdle ==
    /\ values = <<>>
    /\ rankH = <<>>
    /\ neighs = <<>>
    /\ query = [index |-> 0]
    /\ sweep = [done |-> FALSE, pairs |-> <<>>]

\* no gravity is evaluated outside the gravity specification
GravityIdle ==
    /\ barnesHut = [r |-> <<>>, m |-> <<>>, thetaSqr |-> 0, built |-> FALSE]
    /\ kdTree = <<>>
    /\ evaluated = [done |-> FALSE]

\* nothing is clamped outside the clamp specification
ClampIdle ==
    /\ clampArgs = <<>>
    /\ clamped = <<>>

\* no N-body step runs outside the N-body specification
NBodyIdle ==
    /\ cloud = <<>>
    /\ nbody = [steps |-> 0]

\* no driver runs outside the driver specification
DriverIdle ==
    /\ driver = [pc |-> "none"]

\* no GUI thread runs outside the controller specifications
ControllerIdle ==
    /\ controller = [pc |-> "none"]
    /\ sphThread = [pc |-> "none"]

\* no rubble pile is generated while another subsystem is exercised
RubbleIdle ==
    rubble = [pc |-> "none"]

\* no boundary condition is applied while another subsystem is exercised
BoundaryIdle ==
    projecting = [pc |-> "none"]

\* no parallelFor runs while the storage is exercised
PoolIdle ==
    /\ pfor = [pc |-> "idle"]
    /\ tasks = <<>>
    /\ tasksLeft = 0
    /\ current = <<>>
    /\ executed = <<>>
    /\ contribution = <<>>
    /\ threadLocal = <<>>
    /\ output = 0

\* no run has been started
RunIdle ==
    /\ status = "STOPPED"
    /\ run = [pc |-> "none"]

Init ==
    /\ storage = <<>>
    /\ other = <<>>
    /\ last = NoCall
    /\ steps = 0
    /\ PoolIdle
    /\ RunIdle
    /\ BodyIdle
    /\ FinderIdle
    /\ GravityIdle
    /\ ClampIdle
    /\ NBodyIdle
    /\ DriverIdle
    /\ ControllerIdle
    /\ RubbleIdle
    /\ BoundaryIdle

\* Storage::insert<TValue, TEnum>(key): a new Quantity is pushed, whatever the
\* storage already holds
insert(qs, key, type, order) == Append(qs, emplace(key, type, order))

\* Storage::insert<TKey, TSecond, TRest...>() and insert<TKey>(): the keys are
\* inserted in turn, each with the type and temporal enum of QuantityMap
RECURSIVE insertKeys(_, _)
insertKeys(qs, keys) ==
    IF keys = <<>>
    THEN qs
    ELSE insertKeys(insert(qs, Head(keys), QuantityType(Head(keys)), QuantityMapOrder(Head(keys))),
                    Tail(keys))

\* storage.insert<TKeys...>(), other.insert<TKeys...>()
Insert ==
    \E keys \in KeyLists :
        \/ /\ storage' = insertKeys(storage, keys)
           /\ other' = other
           /\ last' = Call("insert", "ok")
        \/ /\ other' = insertKeys(other, keys)
           /\ storage' = storage
           /\ last' = Call("insertOther", "ok")

\* Storage::insert<TValue, TEnum>(key) with a type or order that is not the map's
InsertManual ==
    \E m \in ManualInserts :
        /\ storage' = insert(storage, m.key, m.type, m.order)
        /\ other' = other
        /\ last' = Call("insert", "ok")

\* iterate<ALL>(storage, resize(N)), the way a body gets its particles
Resize ==
    \E N \in 0..MaxN, garbage \in Values :
        /\ storage # <<>>
        /\ storage' = resizeAll(storage, N, garbage)
        /\ other' = other
        /\ last' = Call("resize", "ok")

\* storage.merge(other), other.merge(storage)
Merge ==
    \/ /\ storage' = merge(storage, other)[1]
       /\ other' = other
       /\ last' = Call("merge", merge(storage, other)[2])
    \/ /\ other' = merge(other, storage)[1]
       /\ storage' = storage
       /\ last' = Call("mergeOther", merge(other, storage)[2])

\* storage.init()
InitStorage ==
    /\ storage' = init(storage)
    /\ other' = other
    /\ last' = Call("init", "ok")

\* Storage other = storage.clone(flags)
Clone ==
    \E flags \in Selectors :
        /\ other' = clone(storage, flags)
        /\ storage' = storage
        /\ last' = [Call("clone", "ok") EXCEPT !.flags = flags]

\* storage.swap(other, flags)
Swap ==
    \E flags \in Selectors :
        /\ storage' = swap(storage, other, flags)[1]
        /\ other' = swap(storage, other, flags)[2]
        /\ last' = [Call("swap", swap(storage, other, flags)[3]) EXCEPT !.flags = flags]

\* storage.get<TKey>(), dt<TKey>(), d2t<TKey>(): the getter of a derivative the
\* map does not give the key does not compile
Get ==
    \E key \in Keys, level \in 1..3 :
        /\ level <= QuantityMapOrder(key) + 1
        /\ UNCHANGED <<storage, other>>
        /\ last' = [Call("get", getSingle(storage, key, level)[1])
                      EXCEPT !.key = key, !.level = level,
                             !.view = getSingle(storage, key, level)[2]]

\* one call, while the bound on the number of calls allows it
Step ==
    /\ steps < MaxSteps
    /\ steps' = steps + 1
    /\ UNCHANGED <<poolVars, runVars, bodyVars, finderVars, gravityVars, clampVars, nbodyVars, driverVars, controllerVars, rubbleVars, boundaryVars>>

Next ==
    \/ Step /\ Insert
    \/ Step /\ InsertManual
    \/ Step /\ Resize
    \/ Step /\ Merge
    \/ Step /\ InitStorage
    \/ Step /\ Clone
    \/ Step /\ Swap
    \/ Step /\ Get

Spec == Init /\ [][Next]_vars

(***************************************************************************)
(* Properties of the storage.                                              *)
(***************************************************************************)
\* the buffers a selector names, in the words of the data model: the values, the
\* first derivatives, the second derivatives, all of them, or of each quantity the
\* derivative of its highest order only (level 1 is v, 2 is dv, 3 is d2v)
SelectedBy(flags, order, level) ==
    \/ "ALL" \in flags
    \/ level = 1 /\ "CONST" \in flags
    \/ level = 2 /\ "FIRST_ORDER" \in flags
    \/ level = 3 /\ "SECOND_ORDER" \in flags
    \/ "HIGHEST_ORDER" \in flags /\ order >= 1 /\ level = order + 1

Zeros(n) == [j \in 1..n |-> 0]

HasNonZero(array) == \E j \in 1..Len(array) : array[j] # 0

Max(set) == CHOOSE x \in set : \A y \in set : y <= x

\* number of particles of a storage: the length of its longest buffer
ParticleCnt(qs) ==
    Max({0} \cup UNION { {Len(qs[i].bufs[l]) : l \in 1..Len(qs[i].bufs)} : i \in 1..Len(qs) })

Ids(qs) == {qs[i].idx : i \in 1..Len(qs)}

SameHeader(q1, q2) == q1.idx = q2.idx /\ q1.type = q2.type /\ q1.order = q2.order

\* C3: clone(F) gives, for every quantity, an equal copy of each buffer F selects
\* and an empty buffer for each one it does not select, where HIGHEST_ORDER
\* selects dv of a first-order quantity, d2v of a second-order quantity and
\* nothing of a zero-order quantity; the source storage is unchanged.
CloneCopiesSelected ==
    [][last'.op = "clone" =>
         /\ storage' = storage
         /\ Len(other') = Len(storage)
         /\ \A i \in 1..Len(storage) :
               /\ other'[i].type = storage[i].type
               /\ other'[i].order = storage[i].order
               /\ Len(other'[i].bufs) = storage[i].order + 1
               /\ \A l \in 1..(storage[i].order + 1) :
                     other'[i].bufs[l] =
                        IF SelectedBy(last'.flags, storage[i].order, l)
                        THEN storage[i].bufs[l]
                        ELSE <<>>]_vars

\* a clone of the highest derivatives of a storage that holds particles in a
\* zero-order, a first-order and a second-order quantity
CloneHighestDone ==
    /\ last.op = "clone"
    /\ last.flags = {"HIGHEST_ORDER"}
    /\ \E i \in 1..Len(storage) :
          /\ storage[i].order = SECOND_ORDER
          /\ HasNonZero(storage[i].bufs[1]) /\ HasNonZero(storage[i].bufs[2])
          /\ HasNonZero(storage[i].bufs[3])
          /\ other[i].bufs = << <<>>, <<>>, storage[i].bufs[3] >>
    /\ \E i \in 1..Len(storage) :
          /\ storage[i].order = FIRST_ORDER
          /\ HasNonZero(storage[i].bufs[1]) /\ HasNonZero(storage[i].bufs[2])
          /\ other[i].bufs = << <<>>, storage[i].bufs[2] >>
    /\ \E i \in 1..Len(storage) :
          /\ storage[i].order = CONST_ORDER
          /\ HasNonZero(storage[i].bufs[1])
          /\ other[i].bufs = << <<>> >>

\* C8, as amended: a request for a key the storage does not hold throws; a request
\* whose type differs from the stored quantity's, or whose order is higher than
\* the stored quantity's, fails the assertion; any other request (the stored order
\* may be higher than the requested one) gives a view over an existing buffer of
\* the first quantity with that key.
GetDetectsMissingBuffer ==
    last.op = "get" =>
        LET found == {i \in 1..Len(storage) : storage[i].idx = last.key}
        IN  IF found = {}
            THEN last.outcome = "throw" /\ last.view = <<>>
            ELSE LET i == CHOOSE i \in found : \A j \in found : i <= j
                 IN  IF \/ storage[i].type # QuantityType(last.key)
                        \/ storage[i].order < QuantityMapOrder(last.key)
                     THEN last.outcome = "panic" /\ last.view = <<>>
                     ELSE /\ last.outcome = "ok"
                          /\ last.view = <<i, last.level>>
                          /\ last.level <= Len(storage[i].bufs)

\* C8, as claimed: a request for a missing key, or with a type or an order that is
\* not the stored quantity's, ends in a panic or an exception, never in a view.
GetDetectsEveryMismatch ==
    last.op = "get" =>
        LET found == {i \in 1..Len(storage) : storage[i].idx = last.key}
        IN  \/ /\ found # {}
               /\ LET i == CHOOSE i \in found : \A j \in found : i <= j
                  IN  /\ storage[i].type = QuantityType(last.key)
                      /\ storage[i].order = QuantityMapOrder(last.key)
            \/ last.outcome \in {"panic", "throw"} /\ last.view = <<>>

\* the derivative of a key was requested from a storage that holds the key
\* without derivatives, and the request failed the assertion
DerivativeRequestRefused ==
    /\ last.op = "get"
    /\ last.level = 2
    /\ last.outcome = "panic"
    /\ \E i \in 1..Len(storage) :
          /\ storage[i].idx = last.key
          /\ storage[i].type = QuantityType(last.key)
          /\ storage[i].order = CONST_ORDER
          /\ \A j \in 1..(i - 1) : storage[j].idx # last.key

\* C9: init() sets to zero the highest-order derivative buffer of every first-order
\* and second-order quantity and changes nothing else: values, lower derivatives,
\* buffer sizes, zero-order quantities and the other storage stay as they were.
InitZeroesHighestOnly ==
    [][last'.op = "init" =>
         /\ other' = other
         /\ Len(storage') = Len(storage)
         /\ \A i \in 1..Len(storage) :
               /\ SameHeader(storage'[i], storage[i])
               /\ Len(storage'[i].bufs) = Len(storage[i].bufs)
               /\ \A l \in 1..Len(storage[i].bufs) :
                     storage'[i].bufs[l] =
                        IF storage[i].order >= 1 /\ l = storage[i].order + 1
                        THEN Zeros(Len(storage[i].bufs[l]))
                        ELSE storage[i].bufs[l]]_vars

\* init() has run on a storage holding particles with non-zero values in a
\* zero-order, a first-order and a second-order quantity
InitDone ==
    /\ last.op = "init"
    /\ \E i \in 1..Len(storage) :
          /\ storage[i].order = SECOND_ORDER
          /\ HasNonZero(storage[i].bufs[1]) /\ HasNonZero(storage[i].bufs[2])
          /\ storage[i].bufs[3] # <<>> /\ ~HasNonZero(storage[i].bufs[3])
    /\ \E i \in 1..Len(storage) :
          /\ storage[i].order = FIRST_ORDER
          /\ HasNonZero(storage[i].bufs[1])
          /\ storage[i].bufs[2] # <<>> /\ ~HasNonZero(storage[i].bufs[2])
    /\ \E i \in 1..Len(storage) :
          /\ storage[i].order = CONST_ORDER
          /\ HasNonZero(storage[i].bufs[1])

SameParticleCnt(qs) ==
    \A i, j \in 1..Len(qs) : Len(qs[i].bufs[1]) = Len(qs[j].bufs[1])

\* the calls C1 speaks of: insert, resize, merge, clone(all), swap(all)
KeepsCountCall(call) ==
    \/ call.op \in {"insert", "insertOther", "resize", "merge", "mergeOther"}
    \/ call.op \in {"clone", "swap"} /\ call.flags = {"ALL"}

\* C1: insert, resize, merge, clone(all) and swap(all) take storages in which every
\* quantity holds the same number of particles to storages in which every quantity
\* holds the same number of particles: no two value buffers of a storage differ in
\* length after the call.
CallsKeepParticleCnt ==
    [][SameParticleCnt(storage) /\ SameParticleCnt(other) /\ KeepsCountCall(last')
         => SameParticleCnt(storage') /\ SameParticleCnt(other')]_vars

\* C2: a call that fails part-way leaves both storages exactly as they were before
\* the call.
FailedCallChangesNothing ==
    [][last'.outcome # "ok" => storage' = storage /\ other' = other]_vars

\* C4: swap(other, F) exchanges the buffers F selects and nothing else: every
\* quantity of both storages keeps its key, type and order, a selected buffer holds
\* what the buffer of the other storage held, an unselected buffer what it held.
SwapMovesOnlySelected ==
    [][last'.op = "swap" /\ last'.outcome = "ok" =>
         /\ Len(storage') = Len(storage) /\ Len(other') = Len(other)
         /\ \A i \in 1..Len(storage) :
               /\ SameHeader(storage'[i], storage[i])
               /\ SameHeader(other'[i], other[i])
               /\ \A l \in 1..Len(storage[i].bufs) :
                     storage'[i].bufs[l] =
                        IF SelectedBy(last'.flags, storage[i].order, l) /\ l <= Len(other[i].bufs)
                        THEN other[i].bufs[l]
                        ELSE storage[i].bufs[l]
               /\ \A l \in 1..Len(other[i].bufs) :
                     other'[i].bufs[l] =
                        IF SelectedBy(last'.flags, other[i].order, l) /\ l <= Len(storage[i].bufs)
                        THEN storage[i].bufs[l]
                        ELSE other[i].bufs[l]]_vars

\* the place of the first quantity with the key
FirstWith(qs, key) ==
    CHOOSE i \in 1..Len(qs) : qs[i].idx = key /\ \A j \in 1..(i - 1) : qs[j].idx # key

\* the buffer of a key at a level on one side of a merge, zeros for the particles
\* of that side where the side has no such buffer
SideOfMerge(qs, key, level) ==
    IF /\ key \in Ids(qs)
       /\ level <= Len(qs[FirstWith(qs, key)].bufs)
       /\ qs[FirstWith(qs, key)].bufs[level] # <<>>
    THEN qs[FirstWith(qs, key)].bufs[level]
    ELSE Zeros(ParticleCnt(qs))

\* C5: merge(other) succeeds and leaves, for every quantity present in either
\* storage, the buffer of the receiver followed by the buffer of the other storage,
\* a buffer missing on one side being zeros for the particles of that side; the
\* other storage is only read.
MergeAppendsEitherSide ==
    [][last'.op = "merge" =>
         /\ last'.outcome = "ok"
         /\ other' = other
         /\ Ids(storage') = Ids(storage) \cup Ids(other)
         /\ \A key \in Ids(storage') :
               \A l \in 1..Len(storage'[FirstWith(storage', key)].bufs) :
                  storage'[FirstWith(storage', key)].bufs[l] =
                     SideOfMerge(storage, key, l) \o SideOfMerge(other, key, l)]_vars

\* C6: merging a body, a storage with particles, into an empty storage succeeds and
\* makes the empty storage equal to the body.
MergeIntoEmptyGivesBody ==
    [][last'.op = "mergeOther" /\ ParticleCnt(other) = 0 /\ ParticleCnt(storage) > 0
         => last'.outcome = "ok" /\ other' = storage]_vars

NoDuplicateIds(qs) ==
    \A i, j \in 1..Len(qs) : qs[i].idx = qs[j].idx => i = j

\* C7: after an insert the storage does not hold two quantities with the same id
\* (an insert of an id the storage holds either fails or extends that quantity).
InsertKeepsIdsUnique ==
    last.op \in {"insert", "insertOther"} => NoDuplicateIds(storage) /\ NoDuplicateIds(other)

(***************************************************************************)
(* Thread pool (src/lib/thread/Pool.h).                                    *)
(*                                                                         *)
(* One caller runs one parallelFor on a pool of ThreadCnt worker threads.  *)
(* The caller submits its tasks in a loop and then waits for all of them;  *)
(* each worker repeatedly takes the next task of the queue and runs it.    *)
(* The functor of the derivative sweep adds the contribution of every      *)
(* index of its range to the accumulator of the thread it runs on; after   *)
(* the parallelFor the accumulators are summed in thread-index order.      *)
(***************************************************************************)
\* number of worker threads of the pool
ThreadCnt == 2
\* largest one-past-last index given to parallelFor
MaxTo == 3
\* largest granularity given to parallelFor
MaxGranularity == 2

\* ThreadPool::getThreadIdx: "The index is within [0, numThreads-1]"
Threads == 0..(ThreadCnt - 1)
Indices == 0..(MaxTo - 1)
\* contributions of a single index to the accumulated quantity
Contributions == {1, 4}
\* no task (an empty Optional / null AutoPtr<ITask>)
NOTHING == <<>>

min(a, b) == IF a < b THEN a ELSE b
max(a, b) == IF a > b THEN a ELSE b

\* Float: a binary floating-point number; the model keeps 2 bits of mantissa
\* and rounds to nearest, ties to even, as IEEE 754 does with 53 bits
roundFloat(x) ==
    LET e == CHOOSE k \in 0..10 : x \div 2^k < 4 /\ (k = 0 \/ x \div 2^(k - 1) >= 4)
        q == x \div 2^e
        rem == x % 2^e
        up == 2 * rem > 2^e \/ (2 * rem = 2^e /\ q % 2 = 1)
    IN  (IF up THEN q + 1 ELSE q) * 2^e

\* operator+= of Float
addFloat(a, b) == roundFloat(a + b)

\* the task made by makeTask([n1, n2, &functor] { functor(n1, n2); })
makeTask(n1, n2) == <<n1, n2>>

\* the functor of a sweep run on [n1, n2): the contribution of every index of
\* the range is added, in index order, to the accumulator of the running thread
RECURSIVE functor(_, _, _, _)
functor(acc, w, n1, n2) ==
    IF n1 >= n2 THEN acc ELSE functor(addFloat(acc, w[n1]), w, n1 + 1, n2)

\* the sum of the thread-local accumulators, threads t..ThreadCnt-1 added to
\* sum in thread-index order
RECURSIVE sumThreadLocal(_, _, _)
sumThreadLocal(sum, tl, t) ==
    IF t >= ThreadCnt THEN sum ELSE sumThreadLocal(addFloat(sum, tl[t]), tl, t + 1)

\* a loop that submits a task for every second index only
nextIndex_skipping(i) == i + 2

\* the index the loop of parallelFor(pool, from, to, functor) continues with
nextIndex(i) == i + 1

\* a loop that leaves one index out between two index ranges
nextRange_gap(i, granularity) == i + granularity + 1

\* the index the loop of parallelFor(pool, from, to, granularity, functor)
\* continues with
nextRange(i, granularity) == i + granularity

\* to - from in the unsigned type Size, which wraps around for to < from; Size
\* has 32 bits, the model keeps 16 of them, which leaves the wrapped difference
\* far above 1000 threads' worth of indices
sizeDifference(to, from) == (to - from) % 65536

\* the granularity of parallelFor(from, to, functor), which uses the global
\* instance of the pool: the empirical formula
defaultGranularity(from, to) == min(1000, max(sizeDifference(to, from) \div ThreadCnt, 1))

\* a parallelFor has been called: its arguments, the contributions of the
\* indices, an empty queue and idle workers with zeroed accumulators
PoolInit ==
    /\ \E from \in 0..1, to \in 0..MaxTo, granularity \in 0..MaxGranularity :
          \* granularity 0 stands for the overload without granularity
          \/ pfor = [pc |-> "submit", from |-> from, to |-> to,
                     granularity |-> granularity, i |-> from, global |-> FALSE]
          \* the overload of the global instance computes its granularity
          \/ pfor = [pc |-> "submit", from |-> from, to |-> to,
                     granularity |-> defaultGranularity(from, to), i |-> from, global |-> TRUE]
    /\ tasks = <<>>
    /\ tasksLeft = 0
    /\ current = [t \in Threads |-> NOTHING]
    /\ executed = [i \in Indices |-> 0]
    /\ contribution \in [Indices -> Contributions]
    /\ threadLocal = [t \in Threads |-> 0]
    /\ output = 0
    /\ StorageIdle
    /\ RunIdle
    /\ BodyIdle
    /\ FinderIdle
    /\ GravityIdle
    /\ ClampIdle
    /\ NBodyIdle
    /\ DriverIdle
    /\ ControllerIdle
    /\ RubbleIdle
    /\ BoundaryIdle

\* ThreadPool::submit: the task is counted as unprocessed and put at the end of
\* the queue
submit(task) ==
    /\ tasksLeft' = tasksLeft + 1
    /\ tasks' = Append(tasks, task)

\* parallelFor(pool, from, to, functor): one turn of the loop, a task running
\* functor(i) is submitted
SubmitIndex ==
    /\ pfor.pc = "submit" /\ pfor.granularity = 0
    /\ pfor.i < pfor.to
    /\ submit(makeTask(pfor.i, pfor.i + 1))
    /\ pfor' = [pfor EXCEPT !.i = nextIndex(pfor.i)]
    /\ UNCHANGED <<current, executed, contribution, threadLocal, output>>

\* parallelFor(pool, from, to, granularity, functor): one turn of the loop, a
\* task running functor(n1, n2) is submitted
SubmitRange ==
    /\ pfor.pc = "submit" /\ pfor.granularity > 0
    /\ pfor.i < pfor.to
    /\ LET n1 == pfor.i
           n2 == min(pfor.i + pfor.granularity, pfor.to)
       IN  submit(makeTask(n1, n2))
    /\ pfor' = [pfor EXCEPT !.i = nextRange(pfor.i, pfor.granularity)]
    /\ UNCHANGED <<current, executed, contribution, threadLocal, output>>

\* the loop of parallelFor ends and pool.waitForAll() is called
CallWaitForAll ==
    /\ pfor.pc = "submit"
    /\ ~(pfor.i < pfor.to)
    /\ pfor' = [pfor EXCEPT !.pc = "wait"]
    /\ UNCHANGED <<tasks, tasksLeft, current, executed, contribution, threadLocal, output>>

\* ThreadPool::waitForAll returns: "Blocks until all submitted tasks has been
\* finished", that is until no task is left unprocessed
waitForAll == tasksLeft = 0

\* parallelFor returns; the sweep then sums the accumulators of the threads in
\* thread-index order
ReturnAndSum ==
    /\ pfor.pc = "wait"
    /\ waitForAll
    /\ pfor' = [pfor EXCEPT !.pc = "done"]
    /\ output' = sumThreadLocal(0, threadLocal, 0)
    /\ UNCHANGED <<tasks, tasksLeft, current, executed, contribution, threadLocal>>

\* ThreadPool::getNextTask, called by an idle worker: the task at the front of
\* the queue is taken
GetNextTask ==
    \E t \in Threads :
        /\ current[t] = NOTHING
        /\ tasks # <<>>
        /\ current' = [current EXCEPT ![t] = Head(tasks)]
        /\ tasks' = Tail(tasks)
        /\ UNCHANGED <<pfor, tasksLeft, executed, contribution, threadLocal, output>>

\* SimpleTask::operator() on a worker: the functor runs on the indices of the
\* task, then the task is no longer counted as unprocessed
RunTask ==
    \E t \in Threads :
        /\ current[t] # NOTHING
        /\ LET n1 == current[t][1]
               n2 == current[t][2]
           IN  /\ executed' = [i \in Indices |->
                                 IF n1 <= i /\ i < n2 THEN executed[i] + 1 ELSE executed[i]]
               /\ threadLocal' = [threadLocal EXCEPT
                                    ![t] = functor(threadLocal[t], contribution, n1, n2)]
        /\ tasksLeft' = tasksLeft - 1
        /\ current' = [current EXCEPT ![t] = NOTHING]
        /\ UNCHANGED <<pfor, tasks, contribution, output>>

OutsidePool == UNCHANGED <<storage, other, last, steps, runVars, bodyVars, finderVars, gravityVars, clampVars, nbodyVars, driverVars, controllerVars, rubbleVars, boundaryVars>>

PoolNext ==
    \/ SubmitIndex /\ OutsidePool
    \/ SubmitRange /\ OutsidePool
    \/ CallWaitForAll /\ OutsidePool
    \/ ReturnAndSum /\ OutsidePool
    \/ GetNextTask /\ OutsidePool
    \/ RunTask /\ OutsidePool

PoolSpec == PoolInit /\ [][PoolNext]_vars

(***************************************************************************)
(* Properties of the thread pool.                                          *)
(***************************************************************************)
\* the indices parallelFor was called for
InRange(i) == pfor.from <= i /\ i < pfor.to

\* C11: parallelFor(pool, from, to, functor) runs the functor exactly once for
\* each index of [from, to): no index is ever run twice, no index outside the
\* range is ever run, and when parallelFor has returned every index of the range
\* has been run (to - from runs in total) and no task is waiting or running.
ParallelForRunsEachIndexOnce ==
    pfor.pc # "idle" /\ pfor.granularity = 0 =>
        /\ \A i \in Indices : executed[i] <= (IF InRange(i) THEN 1 ELSE 0)
        /\ pfor.pc = "done" =>
              /\ \A i \in Indices : InRange(i) => executed[i] = 1
              /\ tasks = <<>>
              /\ \A t \in Threads : current[t] = NOTHING

\* a parallelFor over at least two indices has returned, and both worker threads
\* have run some of its tasks
ParallelForReturned ==
    /\ pfor.pc = "done" /\ pfor.granularity = 0
    /\ pfor.to - pfor.from >= 2
    /\ \A i \in Indices : InRange(i) => executed[i] = 1
    /\ \A t \in Threads : threadLocal[t] > 0

\* the output of the run in which one worker thread takes every task: its
\* accumulator receives the contributions in index order, the accumulators of
\* the other threads stay zero
SingleWorkerOutput == functor(0, contribution, pfor.from, pfor.to)

\* C12: at fixed input, thread count and granularity a sweep gives the same
\* output whichever worker takes which index range, that is the output of the
\* run in which one worker takes all of them.
SweepOutputIsReproducible ==
    pfor.pc = "done" /\ pfor.granularity > 0 => output = SingleWorkerOutput

\* the index ranges submitted and not yet finished: waiting in the queue or
\* running on a worker
PendingRanges ==
    {tasks[k] : k \in 1..Len(tasks)} \cup {current[t] : t \in {u \in Threads : current[u] # NOTHING}}

\* number of submitted index ranges holding index i: each range is either
\* pending or has run, and a range that has run has counted in executed
submittedWith(i) ==
    executed[i]
      + Cardinality({k \in 1..Len(tasks) : tasks[k][1] <= i /\ i < tasks[k][2]})
      + Cardinality({t \in Threads : current[t] # NOTHING /\ current[t][1] <= i /\ i < current[t][2]})

\* the index ranges submitted so far are non-empty, not longer than the
\* granularity, and every index of [from, to) below the loop variable is in
\* exactly one of them, every other index in none
SubmittedRangesPartition ==
    /\ \A task \in PendingRanges :
          task[1] < task[2] /\ task[2] - task[1] <= pfor.granularity
    /\ \A i \in Indices :
          submittedWith(i) = (IF InRange(i) /\ i < pfor.i THEN 1 ELSE 0)
    /\ pfor.pc \in {"wait", "done"} /\ pfor.from <= pfor.to => pfor.i >= pfor.to

\* every turn of the submission loop moves the loop variable up, and never
\* further than granularity - 1 past `to`: the loop ends after at most
\* to - from turns
LoopAdvances ==
    pfor.pc = "submit" /\ pfor.granularity > 0 /\ pfor'.pc = "submit" /\ pfor' # pfor =>
        pfor'.i > pfor.i /\ pfor'.i < pfor.to + pfor.granularity

\* N / P of the call parallelFor(from, to, functor)
indicesPerThread == (pfor.to - pfor.from) \div ThreadCnt

\* C28 (as stated): the submitted index ranges are non-empty, disjoint, not
\* longer than the granularity and cover [from, to); the overload without a
\* granularity passes a granularity of at least 1 that equals the smaller of
\* 1000 and N / P.
DefaultGranularityIsSmallerOfLimitAndShare ==
    pfor.pc # "idle" /\ pfor.granularity > 0 /\ pfor.from <= pfor.to =>
        /\ SubmittedRangesPartition
        /\ pfor.global =>
              pfor.granularity >= 1 /\ pfor.granularity = min(1000, indicesPerThread)

\* C28: parallelFor with a granularity G >= 1 submits index ranges [n1, n2)
\* that are non-empty, pairwise disjoint, of length at most G and together
\* cover [from, to) exactly; every turn of its submission loop advances the
\* loop variable, so the loop terminates for every from <= to; the overload
\* without a granularity passes a granularity of at least 1: the smaller of
\* 1000 and N / P where N >= P, and 1 where N < P.
ParallelForRangesPartition ==
    /\ [](pfor.pc # "idle" /\ pfor.granularity > 0 =>
            /\ SubmittedRangesPartition
            /\ pfor.global /\ pfor.from <= pfor.to =>
                  /\ pfor.granularity >= 1
                  /\ indicesPerThread >= 1 => pfor.granularity = min(1000, indicesPerThread)
                  /\ indicesPerThread = 0 => pfor.granularity = 1)
    /\ [][LoopAdvances]_vars

\* parallelFor(from, to, functor) was called for fewer indices than the pool
\* has threads, and has returned after its only index range has run
FewerIndicesThanThreadsDone ==
    /\ pfor.pc = "done" /\ pfor.global
    /\ pfor.from < pfor.to /\ indicesPerThread = 0
    /\ \A i \in Indices : InRange(i) => executed[i] = 1

(***************************************************************************)
(* A run driven by the GUI (src/gui/Controller.cpp, system/Callbacks.h).   *)
(*                                                                         *)
(* The main thread calls pause, stop, restart and quit of the Controller,  *)
(* which only set `status`. The run thread loops over time steps; after    *)
(* each one it calls the callbacks onTimeStep and shouldAbortRun of the    *)
(* Controller. `run` is the state of the run thread: its position pc, the  *)
(* number of the run, the time steps it has started and completed, and     *)
(* the particle iterations done in the current time step.                  *)
(***************************************************************************)
\* number of time steps in the time range of a run
MaxTimeSteps == 2
\* number of particle iterations of one time step
IterationCnt == 2
\* largest number of runs started by the Controller
MaxRuns == 2

Status == {"RUNNING", "PAUSED", "STOPPED", "QUITTING"}

\* shouldAbortRun that does not look at QUITTING
shouldAbortRun_stopped_only(st) == st = "STOPPED"

\* Controller::shouldAbortRun
shouldAbortRun(st) == st = "STOPPED" \/ st = "QUITTING"

\* Controller::run: a new thread sets the run up and enters its loop
newRun(id) == [pc |-> "loop", id |-> id, started |-> 0, completed |-> 0, iter |-> 0]

\* the run thread has ended: sph.thread.join() returns
joinable(r) == r.pc \in {"aborted", "finished"}

\* continueVar.notify_one(): a run thread waiting in onTimeStep returns from it
notify_one(r) == IF r.pc = "waiting" THEN [r EXCEPT !.pc = "check"] ELSE r

\* Controller::start: status is RUNNING and the first run is started
RunInit ==
    /\ status = "RUNNING"
    /\ run = newRun(1)
    /\ StorageIdle
    /\ PoolIdle
    /\ BodyIdle
    /\ FinderIdle
    /\ GravityIdle
    /\ ClampIdle
    /\ NBodyIdle
    /\ DriverIdle
    /\ ControllerIdle
    /\ RubbleIdle
    /\ BoundaryIdle

\* Controller::pause
Pause ==
    /\ status' = "PAUSED"
    /\ UNCHANGED run

\* Controller::stop(false)
Stop ==
    /\ status' = "STOPPED"
    /\ UNCHANGED run

\* Controller::restart
Restart ==
    CASE status \in {"RUNNING", "QUITTING"} ->
            UNCHANGED <<status, run>>
      [] status = "PAUSED" ->
            /\ run' = notify_one(run)
            /\ status' = "RUNNING"
      [] status = "STOPPED" ->
            \* sph.thread.join() blocks until the previous run has ended
            /\ joinable(run)
            /\ run.id < MaxRuns
            /\ run' = newRun(run.id + 1)
            /\ status' = "RUNNING"

\* Controller::quit, up to the join of the run thread
Quit ==
    /\ status # "QUITTING"
    /\ status' = "QUITTING"
    /\ run' = notify_one(run)

\* the loop of the run: the next time step starts, or the time range is over
\* and the run ends (onRunEnd is called)
LoopTest ==
    /\ run.pc = "loop"
    /\ run' = IF run.completed < MaxTimeSteps
              THEN [run EXCEPT !.pc = "step", !.started = @ + 1, !.iter = 0]
              ELSE [run EXCEPT !.pc = "finished"]
    /\ UNCHANGED status

\* one particle iteration of the time step
Iterate ==
    /\ run.pc = "step"
    /\ run.iter < IterationCnt
    /\ run' = [run EXCEPT !.iter = @ + 1]
    /\ UNCHANGED status

\* the time step is complete; the callbacks are called next
EndStep ==
    /\ run.pc = "step"
    /\ run.iter = IterationCnt
    /\ run' = [run EXCEPT !.pc = "onTimeStep", !.completed = @ + 1]
    /\ UNCHANGED status

\* Controller::onTimeStep: returns at once when quitting, waits on continueVar
\* when paused
OnTimeStep ==
    /\ run.pc = "onTimeStep"
    /\ run' = [run EXCEPT !.pc = IF status = "QUITTING" THEN "check"
                                 ELSE IF status = "PAUSED" THEN "waiting"
                                 ELSE "check"]
    /\ UNCHANGED status

\* continueVar.wait(lock) has no predicate: it also returns on a spurious wakeup
SpuriousWakeup ==
    /\ run.pc = "waiting"
    /\ run' = notify_one(run)
    /\ UNCHANGED status

\* after the callbacks of a time step the run asks shouldAbortRun and leaves
\* the loop if it says so (onRunEnd is then not called)
CheckAbort ==
    /\ run.pc = "check"
    /\ run' = [run EXCEPT !.pc = IF shouldAbortRun(status) THEN "aborted" ELSE "loop"]
    /\ UNCHANGED status

OutsideRun == UNCHANGED <<storage, other, last, steps, poolVars, bodyVars, finderVars, gravityVars, clampVars, nbodyVars, driverVars, controllerVars, rubbleVars, boundaryVars>>

RunNext ==
    \/ Pause /\ OutsideRun
    \/ Stop /\ OutsideRun
    \/ Restart /\ OutsideRun
    \/ Quit /\ OutsideRun
    \/ LoopTest /\ OutsideRun
    \/ Iterate /\ OutsideRun
    \/ EndStep /\ OutsideRun
    \/ OnTimeStep /\ OutsideRun
    \/ SpuriousWakeup /\ OutsideRun
    \/ CheckAbort /\ OutsideRun

RunSpec == RunInit /\ [][RunNext]_vars

(***************************************************************************)
(* Properties of the run.                                                  *)
(***************************************************************************)
\* C13: a stop request is observed only between time steps. A time step that has
\* started goes through every particle iteration and completes, whatever happens
\* to the status meanwhile; a run is aborted only at the check that follows the
\* callbacks of a completed time step, and it is aborted there whenever the
\* status is STOPPED or QUITTING; an aborted run has completed every time step it
\* started and starts no further one.
StopObservedBetweenSteps ==
    [][/\ run.pc = "step" /\ run' # run =>
              \/ run.iter < IterationCnt /\ run' = [run EXCEPT !.iter = @ + 1]
              \/ /\ run.iter = IterationCnt
                 /\ run' = [run EXCEPT !.pc = "onTimeStep", !.completed = @ + 1]
       /\ run'.pc = "aborted" /\ run.pc # "aborted" =>
              /\ run.pc = "check"
              /\ run'.started = run.started
              /\ run'.completed = run.started
       /\ run.pc = "check" /\ status \in {"STOPPED", "QUITTING"} /\ run' # run =>
              run'.pc = "aborted"
       /\ run.pc = "aborted" /\ run' # run =>
              run'.id = run.id + 1
      ]_vars

\* a run was stopped during its first time step and was aborted after that step
StoppedAfterFirstStep ==
    /\ run.pc = "aborted"
    /\ status = "STOPPED"
    /\ run.completed = 1 /\ run.started = 1

(***************************************************************************)
(* Bodies and the solver (src/lib/sph/initial/Initial.cpp,                 *)
(* src/gui/collision/Collision.cpp, src/core/tests/Setup.h).               *)
(*                                                                         *)
(* `particles` is the storage a solver integrates. For every particle it   *)
(* keeps the body it came with (flag), how often solver.create has been    *)
(* called for it (created), how many calls of integrate on the storage had *)
(* begun when create was first called for it (createdAt, -1 if never) and  *)
(* the number of the first call of integrate that ran on it (seenAt, 0 if  *)
(* none).                                                                  *)
(***************************************************************************)
\* largest number of particles of a body
MaxBodyParticles == 2
\* largest number of bodies added before the run
MaxBodies == 2
\* the run ends at this time; every time step advances the time by one
MaxTime == 3

\* "Time when initial dampening phase is ended and impact starts"
startTime == 0

\* Storage body(material) with the generated positions inserted: n particles,
\* no quantity of the solver yet
newBody(n, bodyIndex) ==
    [k \in 1..n |-> [flag |-> bodyIndex, created |-> 0, createdAt |-> -1, seenAt |-> 0]]

\* solver.create(storage, material): the quantities of the solver are created
\* for every particle of the storage
create(ps, integrations) ==
    [k \in 1..Len(ps) |->
        [ps[k] EXCEPT !.created = @ + 1,
                      !.createdAt = IF ps[k].created = 0 THEN integrations ELSE @]]

\* a setQuantities that does not call the solver
setQuantities_without_create(body, integrations) == body

\* InitialConditions::setQuantities: masses and flags are inserted, then
\* solver->create and material.create are called on the body
setQuantities(body, integrations) == create(body, integrations)

\* InitialConditions::addMonolithicBody: the body is generated, its quantities
\* are set, and it is merged into the storage
addMonolithicBody(ps, n, bodyIndex, integrations) ==
    ps \o setQuantities(newBody(n, bodyIndex), integrations)

\* GenericSolver::integrate(storage, stats): the derivatives of every particle
\* of the storage are computed
integrate(ps, call) ==
    [k \in 1..Len(ps) |-> [ps[k] EXCEPT !.seenAt = IF @ = 0 THEN call ELSE @]]

\* either a run is set up by InitialConditions (Collision), or computeField is
\* called on a storage made by the test
BodyInit ==
    /\ \/ /\ particles = <<>>
          /\ \E lower \in -2..0 :
                sim = [phase |-> "setup", solver |-> "CollisionSolver", t |-> lower,
                       bodyIndex |-> 0, integrations |-> 0, impactStarted |-> FALSE]
       \/ /\ \E n \in 1..MaxBodyParticles : particles = newBody(n, 0)
          /\ \E repeatCnt \in 1..MaxTime :
                sim = [phase |-> "create", solver |-> "TSolver", t |-> MaxTime - repeatCnt,
                       bodyIndex |-> 1, integrations |-> 0, impactStarted |-> FALSE]
    /\ StorageIdle
    /\ PoolIdle
    /\ RunIdle
    /\ FinderIdle
    /\ GravityIdle
    /\ ClampIdle
    /\ NBodyIdle
    /\ DriverIdle
    /\ ControllerIdle
    /\ RubbleIdle
    /\ BoundaryIdle

\* a body is added while the run is set up
AddBody ==
    /\ sim.phase = "setup"
    /\ sim.bodyIndex < MaxBodies
    /\ \E n \in 1..MaxBodyParticles :
          particles' = addMonolithicBody(particles, n, sim.bodyIndex, sim.integrations)
    /\ sim' = [sim EXCEPT !.bodyIndex = @ + 1]

\* the set-up is over, the run starts
StartRun ==
    /\ sim.phase = "setup"
    /\ particles # <<>>
    /\ sim' = [sim EXCEPT !.phase = "run"]
    /\ UNCHANGED particles

\* computeField: solver.create(storage, storage.getMaterial(0))
ComputeFieldCreate ==
    /\ sim.phase = "create"
    /\ particles' = create(particles, sim.integrations)
    /\ sim' = [sim EXCEPT !.phase = "run"]

\* computeField: solver.integrate(storage, stats), repeatCnt times
ComputeFieldIntegrate ==
    /\ sim.phase = "run" /\ sim.solver = "TSolver"
    /\ sim.t < MaxTime
    /\ particles' = integrate(particles, sim.integrations + 1)
    /\ sim' = [sim EXCEPT !.integrations = @ + 1, !.t = @ + 1]

\* CollisionSolver::integrate: the storage is integrated; the first time the
\* time is past startTime the impactor is added to the storage
CollisionIntegrate ==
    /\ sim.phase = "run" /\ sim.solver = "CollisionSolver"
    /\ sim.t < MaxTime
    /\ LET integrated == integrate(particles, sim.integrations + 1)
       IN  IF sim.t > startTime /\ ~sim.impactStarted
           THEN /\ \E n \in 1..MaxBodyParticles :
                      particles' = addMonolithicBody(integrated, n, sim.bodyIndex,
                                                     sim.integrations + 1)
                /\ sim' = [sim EXCEPT !.integrations = @ + 1, !.t = @ + 1,
                                      !.bodyIndex = @ + 1, !.impactStarted = TRUE]
           ELSE /\ particles' = integrated
                /\ sim' = [sim EXCEPT !.integrations = @ + 1, !.t = @ + 1]

OutsideBody == UNCHANGED <<storage, other, last, steps, poolVars, runVars, finderVars, gravityVars, clampVars, nbodyVars, driverVars, controllerVars, rubbleVars, boundaryVars>>

BodyNext ==
    \/ AddBody /\ OutsideBody
    \/ StartRun /\ OutsideBody
    \/ ComputeFieldCreate /\ OutsideBody
    \/ ComputeFieldIntegrate /\ OutsideBody
    \/ CollisionIntegrate /\ OutsideBody

BodySpec == BodyInit /\ [][BodyNext]_vars

(***************************************************************************)
(* Properties of the bodies and the solver.                                *)
(***************************************************************************)
\* C14, as amended: solver.create is called exactly once for every particle, on
\* the storage of its body or of the test and before any call of integrate that
\* runs on the particle; integrate never runs on a particle without it. (A body
\* may be created and merged after integration of the storage has begun.)
IntegrateSeesCreatedParticles ==
    \A k \in 1..Len(particles) :
        /\ sim.phase = "run" => particles[k].created = 1
        /\ particles[k].seenAt > 0 =>
              /\ particles[k].created = 1
              /\ particles[k].createdAt >= 0
              /\ particles[k].createdAt < particles[k].seenAt

\* C14, as claimed: create is called for the particles of a storage before the
\* first call of integrate on that storage, never after integration of the
\* storage has begun.
CreateBeforeFirstIntegrate ==
    \A k \in 1..Len(particles) :
        /\ sim.integrations > 0 => particles[k].created = 1
        /\ particles[k].created > 0 => particles[k].createdAt = 0

\* the impactor was added by a call of integrate and the next call ran on its
\* particles, next to the particles of a body of the set-up
ImpactorIntegrated ==
    \E k, l \in 1..Len(particles) :
        /\ particles[k].createdAt = 0 /\ particles[k].seenAt = 1
        /\ particles[l].createdAt > 0 /\ particles[l].seenAt = particles[l].createdAt + 1

(***************************************************************************)
(* Neighbour finder (src/lib/objects/finders/INeighbourFinder.h,           *)
(* BruteForce.h) and the main cycle of the solver                          *)
(* (src/lib/solvers/ContinuitySolver.cpp).                                 *)
(*                                                                         *)
(* A particle is a Vector: its position, here a single coordinate x, and   *)
(* its smoothing length, the component H. Particles are numbered from 1;   *)
(* ranks are numbered from 0 as in the source.                             *)
(***************************************************************************)
\* largest number of particles given to the finder
MaxParticles == 3
\* coordinates of the particles
Coordinates == {0, 1, 2}
\* largest smoothing length of a particle
MaxH == 2
\* radii of the queries
Radii == {0, 1, 2, 3}

\* radius of the support of the kernel, in units of the smoothing length
kernelRadius == 2

sqr(x) == x * x

\* getSqrLength(v1 - v2): H is not a part of the length
getSqrLength(v1, v2) == sqr(v1.x - v2.x)

\* Order::shuffle with the comparator of makeRankH: the indices sorted by
\* smoothing length, indices of equal smoothing length in increasing order
RECURSIVE shuffle(_, _)
shuffle(vs, left) ==
    IF left = {} THEN <<>>
    ELSE LET first == CHOOSE i \in left :
                          \A j \in left : \/ vs[i].h < vs[j].h
                                          \/ vs[i].h = vs[j].h /\ i <= j
         IN  <<first>> \o shuffle(vs, left \ {first})

\* Order::getInverted: the place, counted from 0, of every index in the order
getInverted(tmp) ==
    [i \in 1..Len(tmp) |-> (CHOOSE k \in 1..Len(tmp) : tmp[k] = i) - 1]

\* a rank that is the sorted order itself, not its inverse
makeRankH_not_inverted(vs) ==
    LET tmp == shuffle(vs, 1..Len(vs)) IN [i \in 1..Len(tmp) |-> tmp[i] - 1]

\* INeighbourFinder::makeRankH
makeRankH(vs) == getInverted(shuffle(vs, 1..Len(vs)))

\* the neighbours pushed by the loop of findNeighbours for the particles i..size
RECURSIVE pushNeighbours(_, _, _, _, _, _)
pushNeighbours(vs, rank, index, radius, refRank, i) ==
    IF i > Len(vs) THEN <<>>
    ELSE LET distSqr == getSqrLength(vs[i], vs[index])
         IN  (IF rank[i] < refRank /\ distSqr < sqr(radius)
              THEN <<[index |-> i, distanceSqr |-> distSqr]>>
              ELSE <<>>)
             \o pushNeighbours(vs, rank, index, radius, refRank, i + 1)

\* a findNeighbours that does not clear the array it is given
findNeighbours_without_clear(neighbours, vs, rank, index, radius, flags) ==
    LET refRank == IF "FIND_ONLY_SMALLER_H" \in flags THEN rank[index] ELSE Len(vs)
    IN  neighbours \o pushNeighbours(vs, rank, index, radius, refRank, 1)

\* BruteForceFinder::findNeighbours(index, radius, neighbours, flags)
findNeighbours(neighbours, vs, rank, index, radius, flags) ==
    LET cleared == <<>>
        refRank == IF "FIND_ONLY_SMALLER_H" \in flags THEN rank[index] ELSE Len(vs)
    IN  cleared \o pushNeighbours(vs, rank, index, radius, refRank, 1)

\* the body of the loop over the neighbours of particle i in compute: the pairs
\* that are evaluated, each with the particles whose derivatives it adds to
RECURSIVE evaluateNeighbours(_, _, _, _)
evaluateNeighbours(vs, i, found, n) ==
    IF n > Len(found) THEN <<>>
    ELSE LET j == found[n].index
             \* hbar = 0.5 * (h_i + h_j); both sides of the comparison with
             \* sqr(kernel.radius() * hbar) are multiplied by 4
             twoHbar == vs[i].h + vs[j].h
         IN  (IF 4 * getSqrLength(vs[i], vs[j]) > sqr(kernelRadius * twoHbar)
              THEN <<>>
              ELSE <<[i |-> i, j |-> j, accumulated |-> {i, j}]>>)
             \o evaluateNeighbours(vs, i, found, n + 1)

\* a main cycle that asks the finder for all neighbours, not only for those of
\* lower rank
RECURSIVE mainCycle_all_neighbours(_, _, _)
mainCycle_all_neighbours(vs, rank, i) ==
    IF i > Len(vs) THEN <<>>
    ELSE LET found == findNeighbours(<<>>, vs, rank, i, vs[i].h * kernelRadius, {})
         IN  evaluateNeighbours(vs, i, found, 1) \o mainCycle_all_neighbours(vs, rank, i + 1)

\* the main cycle of ContinuitySolver::compute, particles i..size
RECURSIVE mainCycle(_, _, _)
mainCycle(vs, rank, i) ==
    IF i > Len(vs) THEN <<>>
    ELSE LET found == findNeighbours(<<>>, vs, rank, i, vs[i].h * kernelRadius,
                                     {"FIND_ONLY_SMALLER_H"})
         IN  evaluateNeighbours(vs, i, found, 1) \o mainCycle(vs, rank, i + 1)

Particles == [x : Coordinates, h : 1..MaxH]

\* positions and smoothing lengths of the particles; no finder built yet
FinderInit ==
    /\ \E n \in 1..MaxParticles : values \in [1..n -> Particles]
    /\ rankH = <<>>
    /\ neighs = <<>>
    /\ query = [index |-> 0]
    /\ sweep = [done |-> FALSE, pairs |-> <<>>]
    /\ StorageIdle
    /\ BodyIdle
    /\ PoolIdle
    /\ RunIdle
    /\ GravityIdle
    /\ ClampIdle
    /\ NBodyIdle
    /\ DriverIdle
    /\ ControllerIdle
    /\ RubbleIdle
    /\ BoundaryIdle

\* INeighbourFinder::build
Build ==
    /\ rankH = <<>>
    /\ rankH' = makeRankH(values)
    /\ UNCHANGED <<values, neighs, query, sweep>>

\* findNeighbours called on the built finder, with the array of the last call
FindNeighbours ==
    /\ rankH # <<>>
    /\ \E index \in 1..Len(values), radius \in Radii,
          flags \in {{}, {"FIND_ONLY_SMALLER_H"}} :
          /\ neighs' = findNeighbours(neighs, values, rankH, index, radius, flags)
          /\ query' = [index |-> index, radius |-> radius, flags |-> flags]
    /\ UNCHANGED <<values, rankH, sweep>>

\* ContinuitySolver::compute: the finder is built and the main cycle is run
Compute ==
    /\ ~sweep.done
    /\ rankH' = makeRankH(values)
    /\ sweep' = [done |-> TRUE, pairs |-> mainCycle(values, makeRankH(values), 1)]
    /\ UNCHANGED <<values, neighs, query>>

OutsideFinder == UNCHANGED <<storage, other, last, steps, poolVars, runVars, bodyVars, gravityVars, clampVars, nbodyVars, driverVars, controllerVars, rubbleVars, boundaryVars>>

FinderNext ==
    \/ Build /\ OutsideFinder
    \/ FindNeighbours /\ OutsideFinder
    \/ Compute /\ OutsideFinder

FinderSpec == FinderInit /\ [][FinderNext]_vars

(***************************************************************************)
(* Properties of the neighbour finder and of the main cycle.               *)
(***************************************************************************)
\* the indices of the neighbours found by the last query
Found == {neighs[n].index : n \in 1..Len(neighs)}

\* the particles closer than the radius of the last query to its particle
WithinRadius ==
    {j \in 1..Len(values) :
        getSqrLength(values[j], values[query.index]) < sqr(query.radius)}

\* every neighbour was found once and carries its squared distance
FoundOnce ==
    /\ Cardinality(Found) = Len(neighs)
    /\ \A n \in 1..Len(neighs) :
          neighs[n].distanceSqr = getSqrLength(values[neighs[n].index], values[query.index])

\* C15, as amended: a query for all neighbours of particle i returns exactly the
\* particles closer than the radius to particle i, each once; particle i itself
\* is among them whenever the radius is not zero; nothing of an earlier query is
\* left in the result.
FindAllIncludesQuery ==
    query.index # 0 /\ query.flags = {} =>
        /\ Found = WithinRadius
        /\ FoundOnce
        /\ query.radius # 0 => query.index \in Found

\* C15, as claimed: a query for all neighbours of particle i returns exactly the
\* particles other than i that are closer than the radius to particle i.
FindAllExcludesQuery ==
    query.index # 0 /\ query.flags = {} =>
        /\ Found = WithinRadius \ {query.index}
        /\ FoundOnce

\* a query for all neighbours found the particle itself and another particle,
\* and left a third particle out
FoundSelfAndOther ==
    /\ query.index # 0 /\ query.flags = {}
    /\ query.index \in Found
    /\ Found \ {query.index} # {}
    /\ Found # 1..Len(values)

\* the position of a particle in the sort by smoothing length, ties broken by
\* index, counted from 0
Rank(j) ==
    Cardinality({k \in 1..Len(values) :
                    \/ values[k].h < values[j].h
                    \/ values[k].h = values[j].h /\ k < j})

InSupport(a, b) ==
    4 * getSqrLength(values[a], values[b]) <= sqr(kernelRadius * (values[a].h + values[b].h))

\* the evaluations of the pair {a, b} in the sweep
Evaluations(a, b) ==
    {n \in 1..Len(sweep.pairs) : {sweep.pairs[n].i, sweep.pairs[n].j} = {a, b}}

\* the pair {a, b} is evaluated exactly once, from the particle of larger rank,
\* and the evaluation adds to the derivatives of both
EvaluatedOnce(a, b) ==
    /\ Cardinality(Evaluations(a, b)) = 1
    /\ \A n \in Evaluations(a, b) :
          /\ Rank(sweep.pairs[n].i) > Rank(sweep.pairs[n].j)
          /\ sweep.pairs[n].accumulated = {a, b}

\* the particle of larger rank of a pair
Higher(a, b) == IF Rank(a) > Rank(b) THEN a ELSE b

MaxPoints == 2

MaxDepth == 1

Masses == {1, 2}

\* values of the squared opening angle
Thetas == {0, 1, 4}

Positions == {2 * c : c \in Coordinates}

QueryPoints == Positions \cup {1}

leafSize == 1

\* EPS is 1 / EpsInv
EpsInv == 1000

INFTY == 1000

\* Size(-1), the index that no particle has
NoIndex == -1


RECURSIVE gcd(_, _)
gcd(a, b) == IF b = 0 THEN a ELSE gcd(b, a % b)

\* a fraction in lowest terms with a positive denominator
fraction(num, den) ==
    LET g == gcd(IF num < 0 THEN -num ELSE num, den)
    IN  [num |-> num \div g, den |-> den \div g]

\* Vector(0._f)
zeroVector == [num |-> 0, den |-> 1]

Box_EMPTY == [lower |-> INFTY, upper |-> -INFTY]

extendPoint(box, v) == [lower |-> min(box.lower, v), upper |-> max(box.upper, v)]

extend(box, b) ==
    [lower |-> min(box.lower, b.lower), upper |-> max(box.upper, b.upper)]

\* Box::size
boxSize(box) == box.upper - box.lower

center(box) == (box.lower + box.upper) \div 2

\* the permutation owned by the tree: particle indices ordered by position
RECURSIVE sortByPosition(_, _)
sortByPosition(rr, n) ==
    IF n = 0 THEN <<>>
    ELSE LET s == sortByPosition(rr, n - 1)
             k == Cardinality({p \in 1..Len(s) : rr[s[p] + 1] <= rr[n]})
         IN  SubSeq(s, 1, k) \o <<n - 1>> \o SubSeq(s, k + 1, Len(s))

\* the indices of the particles of a leaf
getLeafIndices(idxs, leaf) == SubSeq(idxs, leaf.from + 1, leaf.to)

\* the trees the build can produce over the range [from, to): a node that
\* holds more than leafSize particles is split somewhere in its range, a
\* child may be empty; a node at the deepest level stays a leaf
RECURSIVE Trees(_, _, _)
Trees(from, to, depth) ==
    IF to - from <= leafSize \/ depth >= MaxDepth
    THEN {[leaf |-> TRUE, from |-> from, to |-> to]}
    ELSE UNION {{[leaf |-> FALSE, left |-> l, right |-> rt] :
                    l \in Trees(from, k, depth + 1), rt \in Trees(k, to, depth + 1)} :
                k \in from..to}

\* the bounding box of the particles of a leaf, EMPTY without particles
RECURSIVE leafBox(_, _)
leafBox(rr, sequence) ==
    IF sequence = <<>> THEN Box_EMPTY
    ELSE extendPoint(leafBox(rr, Tail(sequence)), rr[Head(sequence) + 1])

\* the loop of buildLeaf: com += m[i] * r[i]; m_leaf += m[i]
RECURSIVE sumLeaf(_, _, _)
sumLeaf(rr, mm, sequence) ==
    IF sequence = <<>> THEN [com |-> 0, m_leaf |-> 0]
    ELSE LET i == Head(sequence)
             rest == sumLeaf(rr, mm, Tail(sequence))
         IN  [com |-> rest.com + mm[i + 1] * rr[i + 1], m_leaf |-> rest.m_leaf + mm[i + 1]]

buildLeaf(rr, mm, idxs, leaf) ==
    LET sequence == getLeafIndices(idxs, leaf)
        box == leafBox(rr, sequence)
        s == sumLeaf(rr, mm, sequence)
    IN  IF leaf.to - leaf.from = 0
        THEN [leaf |-> TRUE, from |-> leaf.from, to |-> leaf.to, box |-> box,
              com |-> zeroVector, moments |-> [order0 |-> 0, higher |-> "zero"]]
        ELSE [leaf |-> TRUE, from |-> leaf.from, to |-> leaf.to, box |-> box,
              com |-> fraction(s.com, s.m_leaf),
              moments |-> [order0 |-> s.m_leaf, higher |-> "multipole"]]

buildInner_left_mass(left, right) ==
    LET ml == left.moments.order0
        mr == right.moments.order0
        box == extend(extend(Box_EMPTY, left.box), right.box)
    IN  IF ml + mr = 0
        THEN [leaf |-> FALSE, left |-> left, right |-> right, box |-> box,
              com |-> zeroVector, moments |-> [order0 |-> 0, higher |-> "zero"]]
        ELSE [leaf |-> FALSE, left |-> left, right |-> right, box |-> box,
              com |-> fraction(ml * left.com.num * right.com.den + mr * right.com.num * left.com.den,
                               (ml + mr) * left.com.den * right.com.den),
              moments |-> [order0 |-> ml, higher |-> "multipole"]]

buildInner(left, right) ==
    LET ml == left.moments.order0
        mr == right.moments.order0
        box == extend(extend(Box_EMPTY, left.box), right.box)
    IN  IF ml + mr = 0
        THEN [leaf |-> FALSE, left |-> left, right |-> right, box |-> box,
              com |-> zeroVector, moments |-> [order0 |-> 0, higher |-> "zero"]]
        ELSE [leaf |-> FALSE, left |-> left, right |-> right, box |-> box,
              com |-> fraction(ml * left.com.num * right.com.den + mr * right.com.num * left.com.den,
                               (ml + mr) * left.com.den * right.com.den),
              moments |-> [order0 |-> ml + mr, higher |-> "multipole"]]

\* kdTree.iterate<BOTTOM_UP>: the children are built before their parent
RECURSIVE build(_, _, _, _)
build(rr, mm, idxs, node) ==
    IF node.leaf THEN buildLeaf(rr, mm, idxs, node)
    ELSE buildInner(build(rr, mm, idxs, node.left), build(rr, mm, idxs, node.right))

\* boxSizeSqr / (boxDistSqr + EPS) < thetaSqr
smallNode_inclusive(node, r0, thetaSqr) ==
    sqr(boxSize(node.box)) * EpsInv <= thetaSqr * (sqr(center(node.box) - r0) * EpsInv + 1)

smallNode(node, r0, thetaSqr) ==
    sqr(boxSize(node.box)) * EpsInv < thetaSqr * (sqr(center(node.box) - r0) * EpsInv + 1)

\* the loop over the particles of a leaf: the exact terms m[i] * dr / |dr|^3
RECURSIVE sumLeafParticles(_, _, _, _, _)
sumLeafParticles(rr, mm, sequence, r0, idx) ==
    IF sequence = <<>> THEN <<>>
    ELSE LET i == Head(sequence)
             rest == sumLeafParticles(rr, mm, Tail(sequence), r0, idx)
         IN  IF idx = i THEN rest
             ELSE <<[i |-> i, m |-> mm[i + 1], dr |-> rr[i + 1] - r0]>> \o rest

\* kdTree.iterate<TOP_DOWN> with the functor of evalImpl: the terms added
\* to f, the multipole ones by evaluateGravity(r0 - node.com, node.moments)
RECURSIVE iterate(_, _, _, _, _, _, _)
iterate(rr, mm, idxs, thetaSqr, node, r0, idx) ==
    IF node.box = Box_EMPTY THEN [multipole |-> <<>>, exact |-> <<>>]
    ELSE IF smallNode(node, r0, thetaSqr)
    THEN [multipole |-> <<[dr |-> fraction(r0 * node.com.den - node.com.num, node.com.den),
                           moments |-> node.moments]>>,
          exact |-> <<>>]
    ELSE IF node.leaf
    THEN [multipole |-> <<>>,
          exact |-> sumLeafParticles(rr, mm, getLeafIndices(idxs, node), r0, idx)]
    ELSE LET l == iterate(rr, mm, idxs, thetaSqr, node.left, r0, idx)
             rt == iterate(rr, mm, idxs, thetaSqr, node.right, r0, idx)
         IN  [multipole |-> l.multipole \o rt.multipole, exact |-> l.exact \o rt.exact]

evalImpl(bh, tree, r0, idx) ==
    IF bh.r = <<>> THEN [multipole |-> <<>>, exact |-> <<>>]
    ELSE iterate(bh.r, bh.m, sortByPosition(bh.r, Len(bh.r)), bh.thetaSqr, tree, r0, idx)

GravityInit ==
    /\ \E n \in 0..MaxPoints :
         \E rr \in [1..n -> Positions], mm \in [1..n -> Masses], t \in Thetas :
            barnesHut = [r |-> rr, m |-> mm, thetaSqr |-> t, built |-> FALSE]
    /\ kdTree = <<>>
    /\ evaluated = [done |-> FALSE]
    /\ StorageIdle
    /\ BodyIdle
    /\ FinderIdle
    /\ PoolIdle
    /\ RunIdle
    /\ ClampIdle
    /\ NBodyIdle
    /\ DriverIdle
    /\ ControllerIdle
    /\ RubbleIdle
    /\ BoundaryIdle

\* BarnesHut::build: the tree of kdTree.build(r), then the nodes bottom-up;
\* nothing is constructed for an empty particle set
BuildGravity ==
    /\ ~barnesHut.built
    /\ \E tree \in Trees(0, Len(barnesHut.r), 0) :
         kdTree' = IF barnesHut.r = <<>> THEN <<>>
                   ELSE build(barnesHut.r, barnesHut.m,
                              sortByPosition(barnesHut.r, Len(barnesHut.r)), tree)
    /\ barnesHut' = [barnesHut EXCEPT !.built = TRUE]
    /\ UNCHANGED evaluated

\* BarnesHut::eval(const Size idx)
EvalIndex ==
    /\ barnesHut.built
    /\ \E idx \in 0..(Len(barnesHut.r) - 1) :
         evaluated' = [done |-> TRUE, idx |-> idx, r0 |-> barnesHut.r[idx + 1],
                       f |-> evalImpl(barnesHut, kdTree, barnesHut.r[idx + 1], idx)]
    /\ UNCHANGED <<barnesHut, kdTree>>

\* BarnesHut::eval(const Vector& r0)
EvalPoint ==
    /\ barnesHut.built
    /\ \E r0 \in QueryPoints :
         evaluated' = [done |-> TRUE, idx |-> NoIndex, r0 |-> r0,
                       f |-> evalImpl(barnesHut, kdTree, r0, NoIndex)]
    /\ UNCHANGED <<barnesHut, kdTree>>

OutsideGravity == UNCHANGED <<storage, other, last, steps, poolVars, runVars, bodyVars, finderVars, clampVars, nbodyVars, driverVars, controllerVars, rubbleVars, boundaryVars>>

GravityNext ==
    \/ BuildGravity /\ OutsideGravity
    \/ EvalIndex /\ OutsideGravity
    \/ EvalPoint /\ OutsideGravity

GravitySpec == GravityInit /\ [][GravityNext]_vars

\* how many exact terms of the last evaluation come from particle j
ExactTerms(j) ==
    Cardinality({p \in 1..Len(evaluated.f.exact) : evaluated.f.exact[p].i = j})

\* C18: with the opening angle 0 the evaluation at a particle replaces no
\* node by its multipole approximation, and every other particle contributes
\* its exact pairwise term (its mass, its separation from the particle)
\* exactly once, the particle itself never
ZeroAngleIsBruteForce ==
    (evaluated.done /\ evaluated.idx # NoIndex /\ barnesHut.thetaSqr = 0) =>
        /\ evaluated.f.multipole = <<>>
        /\ \A j \in 0..(Len(barnesHut.r) - 1) :
             ExactTerms(j) = IF j = evaluated.idx THEN 0 ELSE 1
        /\ \A p \in 1..Len(evaluated.f.exact) :
             LET t == evaluated.f.exact[p]
             IN  /\ t.m = barnesHut.m[t.i + 1]
                 /\ t.dr = barnesHut.r[t.i + 1] - barnesHut.r[evaluated.idx + 1]

\* the opening angle is 0, the tree has an inner node, and the other
\* particle has contributed to the evaluation at a particle
ZeroAngleSummedOther ==
    /\ evaluated.done /\ evaluated.idx # NoIndex /\ barnesHut.thetaSqr = 0
    /\ ~kdTree.leaf
    /\ Len(evaluated.f.exact) = 1

\* the nodes of a built tree
RECURSIVE Nodes(_)
Nodes(node) ==
    IF node.leaf THEN {node} ELSE {node} \cup Nodes(node.left) \cup Nodes(node.right)

\* the particles of the subtree of a node
RECURSIVE Subtree(_)
Subtree(node) ==
    IF node.leaf
    THEN {sortByPosition(barnesHut.r, Len(barnesHut.r))[p] : p \in (node.from + 1)..node.to}
    ELSE Subtree(node.left) \cup Subtree(node.right)

RECURSIVE TotalMass(_)
TotalMass(S) ==
    IF S = {} THEN 0
    ELSE LET i == CHOOSE i \in S : TRUE IN barnesHut.m[i + 1] + TotalMass(S \ {i})

\* C19: after the build the mass of every node is the total mass of the
\* particles of its subtree; a node without particles has mass 0 and zero
\* moments; the mass of an inner node is the sum of the masses of its
\* children; the root has the total mass of the storage
NodeMassIsSubtreeMass ==
    (barnesHut.built /\ barnesHut.r # <<>>) =>
        /\ \A node \in Nodes(kdTree) :
             /\ node.moments.order0 = TotalMass(Subtree(node))
             /\ Subtree(node) = {} =>
                  node.moments = [order0 |-> 0, higher |-> "zero"] /\ node.com = zeroVector
             /\ ~node.leaf =>
                  node.moments.order0 = node.left.moments.order0 + node.right.moments.order0
        /\ kdTree.moments.order0 = TotalMass(0..(Len(barnesHut.r) - 1))

\* a tree is built whose root has an empty child and a child with two
\* particles
InnerWithEmptyChild ==
    /\ barnesHut.built /\ barnesHut.r # <<>>
    /\ ~kdTree.leaf
    /\ \E c \in {kdTree.left, kdTree.right} : Subtree(c) = {}
    /\ kdTree.moments.order0 >= 2

\* a term of the last evaluation computed with zero separation
ZeroSeparation ==
    \/ \E p \in 1..Len(evaluated.f.exact) : evaluated.f.exact[p].dr = 0
    \/ \E p \in 1..Len(evaluated.f.multipole) : evaluated.f.multipole[p].dr.num = 0

\* C20: an evaluation at a point that coincides with the position of a
\* particle, by index or by an arbitrary point, computes no term with zero
\* separation, so its result is not NaN
EvalAtParticleIsReal ==
    (evaluated.done /\ \E i \in 1..Len(barnesHut.r) : barnesHut.r[i] = evaluated.r0) =>
        ~ZeroSeparation

(***************************************************************************)
(* Range and clampWithDerivative (objects/wrappers/Range.h).  A Range is   *)
(* [minBound, maxBound]; INFTY and -INFTY make it one-sided or unbounded.  *)
(***************************************************************************)
MaxValue == 2

Floats == (-MaxValue)..MaxValue

Bounds == {-INFTY, INFTY} \cup ((-MaxValue + 1)..(MaxValue - 1))

Derivatives == {-1, 0, 1}

\* Range(lower, upper), with its ASSERT(lower <= upper)
Ranges == {rg \in [minBound : Bounds, maxBound : Bounds] : rg.minBound <= rg.maxBound}

lower(range) == range.minBound

upper(range) == range.maxBound

\* Range::clamp
clamp(range, value) == max(range.minBound, min(value, range.maxBound))

clampWithDerivative_above_only(v, dv, range) ==
    LET zeroDeriv == (v > upper(range) /\ dv > 0) \/ (v < lower(range) /\ dv < 0)
    IN  <<clamp(range, v), IF zeroDeriv THEN 0 ELSE dv>>

clampWithDerivative(v, dv, range) ==
    LET zeroDeriv == (v >= upper(range) /\ dv > 0) \/ (v <= lower(range) /\ dv < 0)
    IN  <<clamp(range, v), IF zeroDeriv THEN 0 ELSE dv>>

ClampInit ==
    /\ clampArgs \in [v : Floats, dv : Derivatives, range : Ranges]
    /\ clamped = <<>>
    /\ StorageIdle
    /\ BodyIdle
    /\ FinderIdle
    /\ GravityIdle
    /\ PoolIdle
    /\ RunIdle
    /\ NBodyIdle
    /\ DriverIdle
    /\ ControllerIdle
    /\ RubbleIdle
    /\ BoundaryIdle

\* one call of clampWithDerivative<Float>
Clamp ==
    /\ clamped = <<>>
    /\ clamped' = clampWithDerivative(clampArgs.v, clampArgs.dv, clampArgs.range)
    /\ UNCHANGED clampArgs

OutsideClamp == UNCHANGED <<storage, other, last, steps, poolVars, runVars, bodyVars, finderVars, gravityVars, nbodyVars, driverVars, controllerVars, rubbleVars, boundaryVars>>

ClampNext == Clamp /\ OutsideClamp

ClampSpec == ClampInit /\ [][ClampNext]_vars

\* the derivative would push the value further out of range
PushesOut ==
    \/ clampArgs.v >= clampArgs.range.maxBound /\ clampArgs.dv > 0
    \/ clampArgs.v <= clampArgs.range.minBound /\ clampArgs.dv < 0

MaxCloud == 2

MaxNBodySteps == 3

\* two particles on different lines pass each other at a distance larger
\* than the sum of their radii
Lines == {0, 24}

CloudPositions == {0, 24, 48}

CloudVelocities == {-12, 0, 12}

abs(a) == IF a < 0 THEN -a ELSE a

\* integrator: the candidate position after the time step
advance(p) == [p EXCEPT !.x = p.x + p.v]

\* the collision of two particles within the time step, assuming linear
\* motion: the time is num / den in [0, 1]; an overlap collides at once
contact(a, b) ==
    LET gap == abs(a.x - b.x) - a.h - b.h
        closing == IF a.x <= b.x THEN a.v - b.v ELSE b.v - a.v
    IN  IF a.y # b.y THEN [hit |-> FALSE]
        ELSE IF gap < 0 THEN [hit |-> TRUE, num |-> 0, den |-> 1]
        ELSE IF closing > 0 /\ gap <= closing THEN [hit |-> TRUE, num |-> gap, den |-> closing]
        ELSE [hit |-> FALSE]

\* collision detection: the colliding pairs (i, j), i < j, with their times
findCollisions(ps) ==
    {[i |-> i, j |-> j, num |-> contact(ps[i], ps[j]).num, den |-> contact(ps[i], ps[j]).den] :
        <<i, j>> \in {pr \in (1..Len(ps)) \X (1..Len(ps)) :
                        pr[1] < pr[2] /\ contact(ps[pr[1]], ps[pr[2]]).hit}}

before(e1, e2) ==
    \/ e1.num * e2.den < e2.num * e1.den
    \/ e1.num * e2.den = e2.num * e1.den /\ (e1.i < e2.i \/ (e1.i = e2.i /\ e1.j < e2.j))

\* perfect merge of two particles, given at their candidate positions: the
\* mass, the momentum and the center of mass are those of the pair
mergeHandler(a, b) ==
    [x |-> (a.m * a.x + b.m * b.x) \div (a.m + b.m), y |-> a.y,
     v |-> (a.m * a.v + b.m * b.v) \div (a.m + b.m),
     h |-> max(a.h, b.h), m |-> a.m + b.m]

toRemove_both(e) == {e.i, e.j}

\* the particle a merge marks for removal
toRemove(e) == {e.j}

\* the events are resolved in increasing time; an event of a particle that
\* has merged or has been removed in this step is dropped
RECURSIVE resolve(_, _, _, _, _)
resolve(ps, events, removed, merged, merges) ==
    IF events = {} THEN [ps |-> ps, removed |-> removed, merges |-> merges]
    ELSE LET e == CHOOSE e1 \in events : \A e2 \in events \ {e1} : before(e1, e2)
         IN  IF {e.i, e.j} \cap (removed \cup merged) # {}
             THEN resolve(ps, events \ {e}, removed, merged, merges)
             ELSE resolve([ps EXCEPT ![e.i] = mergeHandler(ps[e.i], ps[e.j])],
                          events \ {e}, removed \cup toRemove(e), merged \cup {e.i, e.j},
                          merges + 1)

\* the compaction pass: the marked particles are removed, once per step
RECURSIVE compact(_, _, _)
compact(ps, removed, i) ==
    IF i > Len(ps) THEN <<>>
    ELSE (IF i \in removed THEN <<>> ELSE <<ps[i]>>) \o compact(ps, removed, i + 1)

\* one time step of the solver
collide(ps) ==
    LET events == findCollisions(ps)
        res == resolve([i \in 1..Len(ps) |-> advance(ps[i])], events, {}, {}, 0)
    IN  [ps |-> compact(res.ps, res.removed, 1), merges |-> res.merges,
         collisions |-> Cardinality(events)]

NBodyInit ==
    /\ \E n \in 0..MaxCloud :
         cloud \in {ps \in [1..n -> [x : CloudPositions, y : Lines, v : CloudVelocities,
                                     h : {6}, m : {1}]] :
                      \A i, j \in 1..n : i # j => (ps[i].x # ps[j].x \/ ps[i].y # ps[j].y)}
    /\ nbody = [steps |-> 0]
    /\ StorageIdle
    /\ BodyIdle
    /\ FinderIdle
    /\ GravityIdle
    /\ ClampIdle
    /\ PoolIdle
    /\ RunIdle
    /\ DriverIdle
    /\ ControllerIdle
    /\ RubbleIdle
    /\ BoundaryIdle

\* timestepping.step(pool, solver, stats)
NBodyStep ==
    /\ nbody.steps < MaxNBodySteps
    /\ LET res == collide(cloud)
       IN  /\ cloud' = res.ps
           /\ nbody' = [steps |-> nbody.steps + 1, cnt |-> Len(cloud),
                        merges |-> res.merges, collisions |-> res.collisions]

OutsideNBody == UNCHANGED <<storage, other, last, steps, poolVars, runVars, bodyVars, finderVars, gravityVars, clampVars, driverVars, controllerVars, rubbleVars, boundaryVars>>

NBodyNext == NBodyStep /\ OutsideNBody

NBodySpec == NBodyInit /\ [][NBodyNext]_vars

\* C22: a time step decreases the particle count by one for every merge of
\* two colliding particles, and leaves it unchanged if no collision takes
\* place in the step
MergeRemovesOneParticle ==
    nbody.steps > 0 =>
        /\ Len(cloud) = nbody.cnt - nbody.merges
        /\ nbody.collisions = 0 => Len(cloud) = nbody.cnt
        /\ nbody.collisions > 0 => nbody.merges > 0

\* two particles have collided and merged into one
TwoMergedIntoOne ==
    /\ nbody.steps > 0
    /\ nbody.cnt = 2 /\ nbody.merges = 1
    /\ Len(cloud) = 1 /\ cloud[1].m = 2

(***************************************************************************)
(* The command-line driver (cli/impact/Impact.cpp).  The command line is   *)
(* the set of options given; the environment says whether the file to      *)
(* resume from can be read and what the simulation throws.                 *)
(***************************************************************************)
Options == {"help", "q", "tr", "v", "i"}

ResumeFiles == {"SPH", "unreadable", "unknown"}

\* what node->run throws: nothing, an Exception of the library for an
\* invalid configuration or a failed output, or an exception that is not
\* derived from Exception
RunFaults == {"none", "InvalidSetup", "IoError", "bad_alloc"}

SphExceptions == {"ArgError", "Exception", "InvalidSetup", "IoError"}

\* the value returned by a catch clause of main
catchException_one(thrown) == IF thrown = "HelpException" THEN 0 ELSE 1

catchException(thrown) == IF thrown = "HelpException" THEN 0 ELSE -1

\* the exit status of a process that returns code from main
exitStatus(code) == code % 256

\* std::terminate after an exception no clause catches: abort, SIGABRT
terminated == 134

DriverInit ==
    /\ driver \in [pc : {"main"}, args : SUBSET Options, resume : ResumeFiles, fault : RunFaults]
    /\ StorageIdle
    /\ BodyIdle
    /\ FinderIdle
    /\ GravityIdle
    /\ ClampIdle
    /\ NBodyIdle
    /\ PoolIdle
    /\ RunIdle
    /\ ControllerIdle
    /\ RubbleIdle
    /\ BoundaryIdle

\* parser.parse(argc, argv)
Parse ==
    /\ driver.pc = "main"
    /\ driver' = IF "help" \in driver.args
                 THEN [driver EXCEPT !.pc = "catch"] @@ [thrown |-> "HelpException"]
                 ELSE [driver EXCEPT !.pc = "parsed"]

\* run(parser, logger)
RunImpact ==
    /\ driver.pc = "parsed"
    /\ driver' =
         IF "q" \in driver.args /\ ~({"tr", "v"} \subseteq driver.args)
         THEN [driver EXCEPT !.pc = "catch"] @@ [thrown |-> "ArgError"]
         ELSE IF "i" \in driver.args /\ driver.resume # "SPH"
         THEN [driver EXCEPT !.pc = "catch"] @@ [thrown |-> "Exception"]
         ELSE IF driver.fault # "none"
         THEN [driver EXCEPT !.pc = "catch"] @@ [thrown |-> driver.fault]
         ELSE [driver EXCEPT !.pc = "ran"]

\* return 0 after run
ReturnSuccess ==
    /\ driver.pc = "ran"
    /\ driver' = [driver EXCEPT !.pc = "exited"] @@ [status |-> exitStatus(0)]

\* the catch clauses of main; an exception that none of them catches ends
\* the process in std::terminate
Catch ==
    /\ driver.pc = "catch"
    /\ driver' = [driver EXCEPT !.pc = "exited"] @@
                    [status |-> IF driver.thrown \in SphExceptions \cup {"HelpException"}
                                THEN exitStatus(catchException(driver.thrown))
                                ELSE terminated]

OutsideDriver == UNCHANGED <<storage, other, last, steps, poolVars, runVars, bodyVars, finderVars, gravityVars, clampVars, nbodyVars, controllerVars, rubbleVars, boundaryVars>>

DriverNext ==
    \/ Parse /\ OutsideDriver
    \/ RunImpact /\ OutsideDriver
    \/ ReturnSuccess /\ OutsideDriver
    \/ Catch /\ OutsideDriver

DriverSpec == DriverInit /\ [][DriverNext]_vars

Exited == driver.pc = "exited"

Failed(kinds) == Exited /\ "thrown" \in DOMAIN driver /\ driver.thrown \in kinds

\* C23: the driver ends with the status 0 after a successful run and after
\* printing the help, with the status 255 (main returns -1) after every
\* exception of the library, whether a user error, a configuration error or
\* an I/O error, and is terminated by abort after any other exception
ExitStatusIsZeroOrMinusOne ==
    Exited =>
        /\ "thrown" \notin DOMAIN driver => driver.status = 0
        /\ Failed({"HelpException"}) => driver.status = 0
        /\ Failed(SphExceptions) => driver.status = 255
        /\ Failed({"bad_alloc"}) => driver.status = terminated

\* C23 as stated: 0 on success, 1 for a user error, 2 for a configuration
\* error, 3 for an I/O error, at least 64 for an internal error, and no
\* other status
ExitStatusByErrorKind ==
    Exited =>
        /\ "thrown" \notin DOMAIN driver => driver.status = 0
        /\ Failed({"ArgError"}) => driver.status = 1
        /\ Failed({"InvalidSetup"}) => driver.status = 2
        /\ Failed({"IoError", "Exception"}) => driver.status = 3
        /\ driver.status \in {0, 1, 2, 3} \/ driver.status >= 64

\* the driver has ended after the user error of -q without -tr and -v
ExitedAfterArgError == Failed({"ArgError"})

(***************************************************************************)
(* The threads of the Controller (gui/Controller.cpp).                     *)
(*                                                                         *)
(* The main thread is idle in its event loop, where it runs the functors   *)
(* posted by executeOnMainThread and the operations the user asks for, or  *)
(* it is inside one of start, stop, restart and quit, which take several   *)
(* steps and may block in sph.thread.join().  The run thread sets the run  *)
(* up, draws the initial state and loops over the time steps; onTimeStep   *)
(* may call redraw, which posts a functor to the main thread and waits on  *)
(* vis.mainThreadVar, and waits on continueVar when the status is PAUSED.  *)
(* Posted functors other than that of redraw touch nothing of this state   *)
(* and are left out.                                                       *)
(***************************************************************************)
\* the run thread is inside Controller::redraw
RedrawPcs == {"redraw", "redrawPost", "redrawWait", "redrawWaiting", "redrawWoken"}

\* the positions in which the main thread is blocked in sph.thread.join()
JoinPcs == {"stopJoin", "startJoin", "restartJoin", "quitJoin"}

\* the thread function has returned
ended(t) == t.pc \in {"aborted", "finished"}

\* sph.thread.joinable(): a thread was started and has not been joined
threadJoinable(t) == t.pc # "none"

\* Controller::run: the new thread starts with sph.run->setUp()
newThread == [pc |-> "setUp", ret |-> "none", completed |-> 0]

\* continueVar.notify_one(): wakes the run thread if it waits in onTimeStep
notifyContinue(t) == IF t.pc = "waiting" THEN [t EXCEPT !.pc = "check"] ELSE t

\* vis.mainThreadVar.notify_one(): wakes the run thread if it waits in redraw
notifyMainThread(t) == IF t.pc = "redrawWaiting" THEN [t EXCEPT !.pc = "redrawWoken"] ELSE t

ControllerInit ==
    /\ controller = [status |-> "STOPPED", pc |-> "idle", ret |-> "idle", events |-> <<>>,
                     mutex |-> "free", runs |-> 0, accessed |-> "none"]
    /\ sphThread = [pc |-> "none"]
    /\ StorageIdle
    /\ BodyIdle
    /\ FinderIdle
    /\ GravityIdle
    /\ ClampIdle
    /\ NBodyIdle
    /\ DriverIdle
    /\ PoolIdle
    /\ RunIdle
    /\ RubbleIdle
    /\ BoundaryIdle

\* Controller::pause
MainPause ==
    /\ controller.pc = "idle"
    /\ controller' = [controller EXCEPT !.status = "PAUSED"]
    /\ UNCHANGED sphThread

\* Controller::stop(false)
MainStop ==
    /\ controller.pc = "idle"
    /\ controller' = [controller EXCEPT !.status = "STOPPED"]
    /\ UNCHANGED sphThread

\* Controller::stop(true), up to the join
MainStopAndWait ==
    /\ controller.pc = "idle"
    /\ controller' = [controller EXCEPT !.status = "STOPPED",
                         !.pc = IF threadJoinable(sphThread) THEN "stopJoin" ELSE "idle"]
    /\ UNCHANGED sphThread

\* Controller::start: stop(true), up to the join
MainStart ==
    /\ controller.pc = "idle"
    /\ controller.runs < MaxRuns
    /\ controller' = [controller EXCEPT !.status = "STOPPED",
                         !.pc = IF threadJoinable(sphThread) THEN "startJoin" ELSE "startRun"]
    /\ UNCHANGED sphThread

\* Controller::start after stop(true): the status is RUNNING, the run starts
MainStartRun ==
    /\ controller.pc = "startRun"
    /\ controller' = [controller EXCEPT !.status = "RUNNING", !.pc = "idle", !.runs = @ + 1]
    /\ sphThread' = newThread

\* Controller::restart, up to the assignment of the status
MainRestart ==
    /\ controller.pc = "idle"
    /\ CASE controller.status \in {"RUNNING", "QUITTING"} ->
                UNCHANGED <<controller, sphThread>>
         [] controller.status = "PAUSED" ->
                /\ sphThread' = notifyContinue(sphThread)
                /\ controller' = [controller EXCEPT !.pc = "restartSet"]
         [] controller.status = "STOPPED" ->
                /\ controller.runs \in 1..(MaxRuns - 1)
                /\ controller' = [controller EXCEPT
                      !.pc = IF threadJoinable(sphThread) THEN "restartJoin" ELSE "restartRun"]
                /\ UNCHANGED sphThread

\* Controller::restart, STOPPED: this->run()
MainRestartRun ==
    /\ controller.pc = "restartRun"
    /\ controller' = [controller EXCEPT !.pc = "restartSet", !.runs = @ + 1]
    /\ sphThread' = newThread

\* Controller::restart: status = Status::RUNNING
MainRestartSet ==
    /\ controller.pc = "restartSet"
    /\ controller' = [controller EXCEPT !.status = "RUNNING", !.pc = "idle"]
    /\ UNCHANGED sphThread

\* Controller::quit: status = Status::QUITTING
MainQuit ==
    /\ controller.pc = "idle"
    /\ controller.status # "QUITTING"
    /\ controller' = [controller EXCEPT !.status = "QUITTING", !.pc = "quitNotify"]
    /\ UNCHANGED sphThread

\* Controller::quit: continueVar.notify_one()
MainQuitNotify ==
    /\ controller.pc = "quitNotify"
    /\ sphThread' = notifyContinue(sphThread)
    /\ controller' = [controller EXCEPT !.pc = "quitEvents"]

\* Controller::quit: ProcessPendingEvents has run every posted functor
MainQuitEvents ==
    /\ controller.pc = "quitEvents"
    /\ controller.events = <<>>
    /\ controller' = [controller EXCEPT
                         !.pc = IF threadJoinable(sphThread) THEN "quitJoin" ELSE "quit"]
    /\ UNCHANGED sphThread

\* sph.thread.join() returns once the thread function has returned
MainJoin ==
    /\ controller.pc \in JoinPcs
    /\ ended(sphThread)
    /\ sphThread' = [pc |-> "none"]
    /\ controller' = [controller EXCEPT
                         !.pc = CASE controller.pc = "stopJoin" -> "idle"
                                  [] controller.pc = "startJoin" -> "startRun"
                                  [] controller.pc = "restartJoin" -> "restartRun"
                                  [] controller.pc = "quitJoin" -> "quit"]

\* the functor of redraw starts on the main thread: it locks
\* vis.mainThreadMutex and updates the data of the renderer
FunctorLock ==
    /\ controller.pc \in {"idle", "quitEvents"}
    /\ controller.events # <<>>
    /\ controller.mutex = "free"
    /\ controller' = [controller EXCEPT !.pc = "functor", !.ret = controller.pc,
                         !.events = Tail(@), !.mutex = "main"]
    /\ UNCHANGED sphThread

\* the functor of redraw ends: vis.mainThreadVar.notify_one(), unlock
FunctorNotify ==
    /\ controller.pc = "functor"
    /\ sphThread' = notifyMainThread(sphThread)
    /\ controller' = [controller EXCEPT !.pc = controller.ret, !.mutex = "free"]

\* Controller::setElement with a status other than RUNNING: the main thread
\* reads the storage of the run
MainSetElement ==
    /\ controller.pc = "idle"
    /\ controller.runs > 0
    /\ controller.status # "RUNNING"
    /\ controller' = [controller EXCEPT !.accessed = sphThread.pc]
    /\ UNCHANGED sphThread

\* Controller::run, thread function: setUp; the initial redraw follows
ThreadSetUp ==
    /\ sphThread.pc = "setUp"
    /\ sphThread' = [sphThread EXCEPT !.pc = "redraw", !.ret = "createMovie"]
    /\ UNCHANGED controller

\* Controller::redraw off the main thread: lock vis.mainThreadMutex
RedrawLock ==
    /\ sphThread.pc = "redraw"
    /\ controller.mutex = "free"
    /\ sphThread' = [sphThread EXCEPT !.pc = "redrawPost"]
    /\ controller' = [controller EXCEPT !.mutex = "run"]

\* Controller::redraw: executeOnMainThread(functor)
RedrawPost ==
    /\ sphThread.pc = "redrawPost"
    /\ sphThread' = [sphThread EXCEPT !.pc = "redrawWait"]
    /\ controller' = [controller EXCEPT !.events = Append(@, "redraw")]

\* Controller::redraw: vis.mainThreadVar.wait(lock) releases the mutex
RedrawWait ==
    /\ sphThread.pc = "redrawWait"
    /\ sphThread' = [sphThread EXCEPT !.pc = "redrawWaiting"]
    /\ controller' = [controller EXCEPT !.mutex = "free"]

\* Controller::redraw: the wait takes the mutex again and redraw returns
RedrawReturn ==
    /\ sphThread.pc = "redrawWoken"
    /\ controller.mutex = "free"
    /\ sphThread' = [sphThread EXCEPT !.pc = sphThread.ret]
    /\ UNCHANGED controller

\* Controller::run, thread function: createMovie; sph.run->run() follows
ThreadCreateMovie ==
    /\ sphThread.pc = "createMovie"
    /\ sphThread' = [sphThread EXCEPT !.pc = "loop"]
    /\ UNCHANGED controller

\* the loop of the run: the next time step, or the end of the time range
ThreadLoop ==
    /\ sphThread.pc = "loop"
    /\ sphThread' = [sphThread EXCEPT
                        !.pc = IF sphThread.completed < MaxTimeSteps THEN "step" ELSE "finished"]
    /\ UNCHANGED controller

\* one time step: the run thread reads and writes the storage
ThreadStep ==
    /\ sphThread.pc = "step"
    /\ sphThread' = [sphThread EXCEPT !.pc = "onTimeStep", !.completed = @ + 1]
    /\ UNCHANGED controller

\* Controller::onTimeStep: returns at once if the status is QUITTING
ThreadOnTimeStep ==
    /\ sphThread.pc = "onTimeStep"
    /\ sphThread' = [sphThread EXCEPT
                        !.pc = IF controller.status = "QUITTING" THEN "check" ELSE "timer"]
    /\ UNCHANGED controller

\* Controller::onTimeStep: redraw if vis.timer has expired
ThreadTimer ==
    /\ sphThread.pc = "timer"
    /\ \E isExpired \in BOOLEAN :
         sphThread' = IF isExpired
                      THEN [sphThread EXCEPT !.pc = "redraw", !.ret = "pauseTest"]
                      ELSE [sphThread EXCEPT !.pc = "pauseTest"]
    /\ UNCHANGED controller

\* Controller::onTimeStep: if (status == Status::PAUSED)
ThreadPauseTest ==
    /\ sphThread.pc = "pauseTest"
    /\ sphThread' = [sphThread EXCEPT
                        !.pc = IF controller.status = "PAUSED" THEN "lockContinue" ELSE "check"]
    /\ UNCHANGED controller

\* Controller::onTimeStep: lock continueMutex, continueVar.wait(lock)
ThreadWait ==
    /\ sphThread.pc = "lockContinue"
    /\ sphThread' = [sphThread EXCEPT !.pc = "waiting"]
    /\ UNCHANGED controller

\* the run asks shouldAbortRun after the callbacks of the time step
ThreadCheckAbort ==
    /\ sphThread.pc = "check"
    /\ sphThread' = [sphThread EXCEPT
                        !.pc = IF shouldAbortRun(controller.status) THEN "aborted" ELSE "loop"]
    /\ UNCHANGED controller

\* both waits have no predicate: they may return without a notification
ThreadSpuriousWakeup ==
    /\ sphThread.pc \in {"waiting", "redrawWaiting"}
    /\ sphThread' = notifyMainThread(notifyContinue(sphThread))
    /\ UNCHANGED controller

OutsideController == UNCHANGED <<storage, other, last, steps, poolVars, runVars, bodyVars, finderVars, gravityVars, clampVars, nbodyVars, driverVars, rubbleVars, boundaryVars>>

\* the steps the main thread takes by itself once an operation has begun,
\* and the functors its event loop runs
MainContinues ==
    \/ MainStartRun
    \/ MainRestartRun
    \/ MainRestartSet
    \/ MainQuitNotify
    \/ MainQuitEvents
    \/ MainJoin
    \/ FunctorLock
    \/ FunctorNotify

\* the steps of the run thread
ThreadRuns ==
    \/ ThreadSetUp
    \/ RedrawLock
    \/ RedrawPost
    \/ RedrawWait
    \/ RedrawReturn
    \/ ThreadCreateMovie
    \/ ThreadLoop
    \/ ThreadStep
    \/ ThreadOnTimeStep
    \/ ThreadTimer
    \/ ThreadPauseTest
    \/ ThreadWait
    \/ ThreadCheckAbort

ControllerNext ==
    \/ MainPause /\ OutsideController
    \/ MainStop /\ OutsideController
    \/ MainStopAndWait /\ OutsideController
    \/ MainStart /\ OutsideController
    \/ MainStartRun /\ OutsideController
    \/ MainRestart /\ OutsideController
    \/ MainRestartRun /\ OutsideController
    \/ MainRestartSet /\ OutsideController
    \/ MainQuit /\ OutsideController
    \/ MainQuitNotify /\ OutsideController
    \/ MainQuitEvents /\ OutsideController
    \/ MainJoin /\ OutsideController
    \/ FunctorLock /\ OutsideController
    \/ FunctorNotify /\ OutsideController
    \/ MainSetElement /\ OutsideController
    \/ ThreadSetUp /\ OutsideController
    \/ RedrawLock /\ OutsideController
    \/ RedrawPost /\ OutsideController
    \/ RedrawWait /\ OutsideController
    \/ RedrawReturn /\ OutsideController
    \/ ThreadCreateMovie /\ OutsideController
    \/ ThreadLoop /\ OutsideController
    \/ ThreadStep /\ OutsideController
    \/ ThreadOnTimeStep /\ OutsideController
    \/ ThreadTimer /\ OutsideController
    \/ ThreadPauseTest /\ OutsideController
    \/ ThreadWait /\ OutsideController
    \/ ThreadCheckAbort /\ OutsideController
    \/ ThreadSpuriousWakeup /\ OutsideController

\* both threads are scheduled: a step that a thread can take by itself is
\* eventually taken; nothing obliges the user to ask for an operation or a
\* wait to return without a notification
ControllerSpec ==
    /\ ControllerInit
    /\ [][ControllerNext]_vars
    /\ WF_vars(MainContinues /\ OutsideController)
    /\ WF_vars(ThreadRuns /\ OutsideController)

\* C24: stop(true), also as the first step of start, returns: once the main
\* thread waits in the join of the run thread, the run thread observes the
\* stop request and ends, and the join completes
StopAndWaitReturns ==
    controller.pc \in {"stopJoin", "startJoin"} ~> controller.pc \notin {"stopJoin", "startJoin"}

\* C25: after pause and restart the run thread does not stay blocked: when
\* restart has returned with the status RUNNING, a run thread that is at
\* the wait of onTimeStep leaves it
RestartWakesRunThread ==
    (/\ controller.status = "RUNNING"
     /\ controller.pc = "idle"
     /\ sphThread.pc \in {"lockContinue", "waiting"})
        ~> sphThread.pc \notin {"lockContinue", "waiting"}

\* C26: a redraw called from the run thread returns
RedrawReturns ==
    sphThread.pc \in RedrawPcs ~> sphThread.pc \notin RedrawPcs

\* C27: while the status is not RUNNING the run thread is not inside a time
\* step, so that setElement never reads the storage during one
StorageIsSafeWhenNotRunning ==
    /\ controller.status # "RUNNING" => sphThread.pc # "step"
    /\ controller.accessed # "step"

(***************************************************************************)
(* Rubble-pile bodies (src/lib/sph/initial/Initial.cpp).                   *)
(*                                                                         *)
(* addRubblePileBody fills a domain with spheres: it draws candidate       *)
(* spheres at random until one does not overlap the spheres accepted so    *)
(* far, moves the particles inside it into a new body, and stops when too  *)
(* many candidates in a row have been rejected. The model is               *)
(* one-dimensional: the bounding box of the domain is 0..MaxCoord, with    *)
(* one generated particle at every point of the domain.                    *)
(***************************************************************************)
\* upper corner of the bounding box of the domain
MaxCoord == 3
\* number of rejections in a row that ends the generation: 1000 in the code
bailoutTarget == 2

\* points of the bounding box, the values of box.lower() + rng() * box.size()
Coords == 0..MaxCoord
\* radii drawn from the size-frequency distribution
SphereRadii == {1, 2}
\* values of BodySettingsId::MIN_PARTICLE_COUNT
MinCounts == {1, 2}
\* domains with the bounding box 0..MaxCoord: the whole box, and the box with
\* a hole
Domains == {Coords, Coords \ {1}}

\* Sphere(center, radius)
Sphere(c, r) == [center |-> c, radius |-> r]

\* Sphere::contains: the point is closer to the center than the radius
contains(sphere, v) == sqr(v - sphere.center) < sqr(sphere.radius)

\* Sphere::intersects: the centers are closer than the sum of the radii
intersects(s, sphere) == sqr(s.center - sphere.center) < sqr(s.radius + sphere.radius)

\* the lambda checkOverlap: the sphere intersects a sphere already generated
checkOverlap(spheres, sphere) ==
    \E k \in 1..Len(spheres) : intersects(spheres[k], sphere)

\* the candidate search stops at the bail-out limit: the code after the inner
\* loop runs as it does after an accepted candidate
bailout(r) == [r EXCEPT !.pc = "extract"]

\* addRubblePileBody is called: no sphere yet, the particles generated by the
\* distribution, a zeroed bail-out counter; center and radius are not
\* initialized
RubbleInit ==
    /\ \E domain \in Domains, minN \in MinCounts :
          rubble = [pc |-> "outer", domain |-> domain, minN |-> minN,
                    positions |-> domain, spheres |-> <<>>, bailoutCounter |-> 0,
                    center |-> NoIndex, radius |-> NoIndex, bodies |-> <<>>]
    /\ StorageIdle
    /\ BodyIdle
    /\ FinderIdle
    /\ GravityIdle
    /\ ClampIdle
    /\ NBodyIdle
    /\ DriverIdle
    /\ ControllerIdle
    /\ PoolIdle
    /\ RunIdle
    /\ BoundaryIdle

\* while (bailoutCounter < bailoutTarget) of the outer loop: a new center and
\* radius are declared
EnterCandidateSearch ==
    /\ rubble.pc = "outer"
    /\ rubble.bailoutCounter < bailoutTarget
    /\ rubble' = [rubble EXCEPT !.pc = "generate", !.center = NoIndex, !.radius = NoIndex]

\* the outer loop ends and addRubblePileBody returns
ReturnRubblePile ==
    /\ rubble.pc = "outer"
    /\ ~(rubble.bailoutCounter < bailoutTarget)
    /\ rubble' = [rubble EXCEPT !.pc = "done"]

\* a generated center outside of the domain is rejected without counting
RejectOutside ==
    /\ rubble.pc = "generate"
    /\ rubble.bailoutCounter < bailoutTarget
    /\ \E c \in Coords :
          /\ c \notin rubble.domain
          /\ rubble' = [rubble EXCEPT !.center = c]

\* a generated sphere that overlaps an accepted one is rejected and counted
RejectOverlap ==
    /\ rubble.pc = "generate"
    /\ rubble.bailoutCounter < bailoutTarget
    /\ \E c \in Coords, r \in SphereRadii :
          /\ c \in rubble.domain
          /\ checkOverlap(rubble.spheres, Sphere(c, r))
          /\ rubble' = [rubble EXCEPT !.center = c, !.radius = r,
                                      !.bailoutCounter = @ + 1]

\* a generated sphere that overlaps no accepted one leaves the inner loop
AcceptCandidate ==
    /\ rubble.pc = "generate"
    /\ rubble.bailoutCounter < bailoutTarget
    /\ \E c \in Coords, r \in SphereRadii :
          /\ c \in rubble.domain
          /\ ~checkOverlap(rubble.spheres, Sphere(c, r))
          /\ rubble' = [rubble EXCEPT !.center = c, !.radius = r, !.pc = "extract"]

\* while (bailoutCounter < bailoutTarget) of the inner loop fails
InnerBailout ==
    /\ rubble.pc = "generate"
    /\ ~(rubble.bailoutCounter < bailoutTarget)
    /\ rubble' = bailout(rubble)

\* the particles inside the sphere
spherePositions == {v \in rubble.positions : contains(Sphere(rubble.center, rubble.radius), v)}

\* the sphere holds fewer particles than the minimum: they are put back and the
\* rejection is counted
RejectSmallBody ==
    /\ rubble.pc = "extract"
    /\ Cardinality(spherePositions) < rubble.minN
    /\ rubble' = [rubble EXCEPT !.bailoutCounter = @ + 1, !.pc = "outer"]

\* the sphere is pushed to the accepted ones, its particles become a body that
\* is merged into the storage, and the counter is reset
CreateBody ==
    /\ rubble.pc = "extract"
    /\ ~(Cardinality(spherePositions) < rubble.minN)
    /\ rubble' = [rubble EXCEPT
                    !.spheres = Append(@, Sphere(rubble.center, rubble.radius)),
                    !.positions = @ \ spherePositions,
                    !.bodies = Append(@, spherePositions),
                    !.bailoutCounter = 0,
                    !.pc = "outer"]

OutsideRubble == UNCHANGED <<storage, other, last, steps, poolVars, runVars, bodyVars, finderVars, gravityVars, clampVars, nbodyVars, driverVars, controllerVars, boundaryVars>>

RubbleNext ==
    \/ EnterCandidateSearch /\ OutsideRubble
    \/ ReturnRubblePile /\ OutsideRubble
    \/ RejectOutside /\ OutsideRubble
    \/ RejectOverlap /\ OutsideRubble
    \/ AcceptCandidate /\ OutsideRubble
    \/ InnerBailout /\ OutsideRubble
    \/ RejectSmallBody /\ OutsideRubble
    \/ CreateBody /\ OutsideRubble

RubbleSpec == RubbleInit /\ [][RubbleNext]_vars

\* C29: every sphere that addRubblePileBody has accepted and turned into a body
\* intersects none of the spheres accepted before it, also when the candidate
\* search ended at the bail-out limit.
AcceptedSpheresDoNotIntersect ==
    rubble.pc # "none" =>
        \A j, k \in 1..Len(rubble.spheres) :
            j < k => ~intersects(rubble.spheres[j], rubble.spheres[k])

(***************************************************************************)
(* Boundary conditions (src/lib/sph/boundary/Boundary.h).                  *)
(*                                                                         *)
(* DomainProjecting::apply moves the particles outside of the domain to    *)
(* its boundary and changes their velocities as the ProjectingOptions say. *)
(* The domain is the wall x >= 0 of src/lib/sph/boundary/test/Boundary.cpp;*)
(* a vector is <<x, y>>, x perpendicular and y parallel to the wall. The   *)
(* coordinates are even numbers, so that halving is exact.                 *)
(***************************************************************************)
\* number of particles in the storage
BoundaryParticles == 2

ProjectingOptions == {"ZERO_VELOCITY", "ZERO_PERPENDICULAR", "REFLECT"}

\* positions on both sides of the wall, and velocities
WallPositions == {-2, 2} \X {0, 2}
WallVelocities == {-2, 2} \X {-2, 2}

plus(a, b) == <<a[1] + b[1], a[2] + b[2]>>
minus(a, b) == <<a[1] - b[1], a[2] - b[2]>>
\* 0.5_f * a
half(a) == <<a[1] \div 2, a[2] \div 2>>

\* Domain::getSubset(r, outside, SubsetType::OUTSIDE): the indices of the
\* particles outside of the domain, in increasing order
getSubset(r) == SelectSeq([i \in 1..Len(r) |-> i], LAMBDA i : r[i][1] < 0)

\* WallDomain::project
project(vs, indices) ==
    [i \in 1..Len(vs) |->
        IF \E k \in 1..Len(indices) : indices[k] = i
        THEN <<IF vs[i][1] > 0 THEN vs[i][1] ELSE 0, vs[i][2]>>
        ELSE vs[i]]

\* WallDomain::invert
invert(vs) == [k \in 1..Len(vs) |-> <<-vs[k][1], vs[k][2]>>]

\* DomainProjecting::projectVelocity: position plus velocity of every outside
\* particle, inverted by the domain
projectVelocity(r, v, outside) ==
    invert([k \in 1..Len(outside) |-> plus(r[outside[k]], v[outside[k]])])

\* the index into vproj used for the k-th outside particle: idx is set to 0
\* before the switch and never changed
idx(k) == 0

\* the velocity apply assigns to the k-th outside particle (vproj[idx] is
\* element idx + 1 of the sequence)
newVelocity(options, r, v, outside, vproj, k) ==
    LET i == outside[k]
    IN  CASE options = "ZERO_VELOCITY" -> <<0, 0>>
          [] options = "ZERO_PERPENDICULAR" -> half(minus(plus(v[i], vproj[idx(k) + 1]), r[i]))
          [] options = "REFLECT" -> minus(vproj[idx(k) + 1], r[i])

\* DomainProjecting::apply: the positions and velocities it leaves
apply(options, r0, v) ==
    LET outside == getSubset(r0)
        r == project(r0, outside)
        vproj == IF options = "ZERO_VELOCITY" THEN <<>> ELSE projectVelocity(r, v, outside)
    IN  [r |-> r,
         v |-> [i \in 1..Len(v) |->
                  IF \E k \in 1..Len(outside) : outside[k] = i
                  THEN LET k == CHOOSE k \in 1..Len(outside) : outside[k] = i
                       IN  newVelocity(options, r, v, outside, vproj, k)
                  ELSE v[i]]]

\* a DomainProjecting has been constructed on a storage with positions and
\* velocities
BoundaryInit ==
    /\ \E options \in ProjectingOptions,
          r \in [1..BoundaryParticles -> WallPositions],
          v \in [1..BoundaryParticles -> WallVelocities] :
          projecting = [pc |-> "constructed", options |-> options,
                        r |-> r, v |-> v, r0 |-> r, v0 |-> v]
    /\ StorageIdle
    /\ BodyIdle
    /\ FinderIdle
    /\ GravityIdle
    /\ ClampIdle
    /\ NBodyIdle
    /\ DriverIdle
    /\ ControllerIdle
    /\ RubbleIdle
    /\ PoolIdle
    /\ RunIdle

\* apply() of an object constructed with ProjectingOptions::ZERO_VELOCITY
ApplyZeroVelocity ==
    /\ projecting.pc = "constructed" /\ projecting.options = "ZERO_VELOCITY"
    /\ LET a == apply(projecting.options, projecting.r, projecting.v)
       IN  projecting' = [projecting EXCEPT !.pc = "applied", !.r = a.r, !.v = a.v]

\* apply() of an object constructed with ProjectingOptions::ZERO_PERPENDICULAR
ApplyZeroPerpendicular ==
    /\ projecting.pc = "constructed" /\ projecting.options = "ZERO_PERPENDICULAR"
    /\ LET a == apply(projecting.options, projecting.r, projecting.v)
       IN  projecting' = [projecting EXCEPT !.pc = "applied", !.r = a.r, !.v = a.v]

\* apply() of an object constructed with ProjectingOptions::REFLECT
ApplyReflect ==
    /\ projecting.pc = "constructed" /\ projecting.options = "REFLECT"
    /\ LET a == apply(projecting.options, projecting.r, projecting.v)
       IN  projecting' = [projecting EXCEPT !.pc = "applied", !.r = a.r, !.v = a.v]

OutsideBoundary == UNCHANGED <<storage, other, last, steps, poolVars, runVars, bodyVars, finderVars, gravityVars, clampVars, nbodyVars, driverVars, controllerVars, rubbleVars>>

BoundaryNext ==
    \/ ApplyZeroVelocity /\ OutsideBoundary
    \/ ApplyZeroPerpendicular /\ OutsideBoundary
    \/ ApplyReflect /\ OutsideBoundary

BoundarySpec == BoundaryInit /\ [][BoundaryNext]_vars

\* the particle was outside of the domain when apply was called
WasOutside(i) == projecting.r0[i][1] < 0

\* C30: apply changes only particles that were outside of the domain, and the
\* new velocity of each of them is computed from its own position and velocity:
\* zero for ZERO_VELOCITY, the perpendicular component zeroed for
\* ZERO_PERPENDICULAR, the perpendicular component with changed sign for
\* REFLECT; the parallel component is kept by the latter two.
OutsideParticlesGetOwnProjectedVelocity ==
    projecting.pc = "applied" =>
        \A i \in 1..BoundaryParticles :
            /\ ~WasOutside(i) =>
                  projecting.r[i] = projecting.r0[i] /\ projecting.v[i] = projecting.v0[i]
            /\ WasOutside(i) =>
                  projecting.v[i] =
                      CASE projecting.options = "ZERO_VELOCITY" -> <<0, 0>>
                        [] projecting.options = "ZERO_PERPENDICULAR" -> <<0, projecting.v0[i][2]>>
                        [] projecting.options = "REFLECT" ->
                              <<-projecting.v0[i][1], projecting.v0[i][2]>>

====
